---------------------------- MODULE Spec2Model ----------------------------
(***************************************************************************)
(* Verification model of the hand-built cipher core of the sandbox:       *)
(* the TEA and XTEA Feistel block functions and their ECB/CBC wrapper     *)
(* (src/src/crypto/engines/tea.ts, xtea.ts), the Salsa20 keystream engine *)
(* (salsa20.ts) and the ChaCha20 block function and engine (the ChaCha20  *)
(* classes in src/src/crypto/engines/twofish.js).                         *)
(*                                                                         *)
(* Number representation.  TLC integers are 32-bit signed, so a JavaScript *)
(* 32-bit word is the pair <<hi, lo>> of its two 16-bit halves; every      *)
(* operator below reduces mod 2^32 exactly where the code applies >>> 0,   *)
(* a typed-array store or a bitwise operator (ToInt32/ToUint32).  Signed   *)
(* and unsigned views of a word have the same bit pattern, which is what   *)
(* is stored here.                                                         *)
(***************************************************************************)
EXTENDS Integers, Sequences, FiniteSets, TLC

---------------------------------------------------------------------------
(* 32-bit word arithmetic                                                   *)

H16 == 65536

Pow2(n) == 2 ^ n

\* XOR of two 4-bit values, tabulated once.
RECURSIVE XorBits(_, _, _)
XorBits(a, b, n) ==
  IF n = 0 THEN 0
  ELSE (((a % 2) + (b % 2)) % 2) + 2 * XorBits(a \div 2, b \div 2, n - 1)

XorNibble == [a \in 0..15 |-> [b \in 0..15 |-> XorBits(a, b, 4)]]

Xor8(a, b) ==
  XorNibble[a % 16][b % 16] + 16 * XorNibble[a \div 16][b \div 16]

Xor16(a, b) ==
    XorNibble[a % 16][b % 16]
  + 16 * XorNibble[(a \div 16) % 16][(b \div 16) % 16]
  + 256 * XorNibble[(a \div 256) % 16][(b \div 256) % 16]
  + 4096 * XorNibble[a \div 4096][b \div 4096]

\* A sequence given by a function expression, built once: TLC re-evaluates
\* the body of a function expression at every application, concatenation
\* with the empty sequence yields the explicit sequence.
Array(f) == f \o <<>>

\* The same for a function on any finite domain (an array indexed from 0).
Table(f) == f @@ <<>>

\* The value of the last of a list of statements.  The elements of a tuple
\* are evaluated in order, each to its value, so the statements take effect
\* in program order.
Last(stmts) == stmts[Len(stmts)]

W(hi, lo) == <<hi, lo>>
Hi(w) == w[1]
Lo(w) == w[2]
Zero32 == W(0, 0)

\* a ^ b; as in the code, both operands are evaluated first
Xor32(a, b) == Last(<<a, b, W(Xor16(Hi(a), Hi(b)), Xor16(Lo(a), Lo(b)))>>)

\* (a + b) mod 2^32
Add32(a, b) ==
  LET lo == Lo(a) + Lo(b)
      hi == Hi(a) + Hi(b) + (lo \div H16)
  IN  Last(<<a, b, W(hi % H16, lo % H16)>>)

\* (a - b) mod 2^32
Sub32(a, b) ==
  LET lo == Lo(a) - Lo(b)
      borrow == IF lo < 0 THEN 1 ELSE 0
      hi == Hi(a) - Hi(b) - borrow
  IN  Last(<<a, b, W((hi + H16) % H16, (lo + H16) % H16)>>)

\* (a << n) mod 2^32, 0 < n < 16
Shl32(a, n) ==
  LET keep == Pow2(16 - n)
  IN  W((Hi(a) % keep) * Pow2(n) + (Lo(a) \div keep), (Lo(a) % keep) * Pow2(n))

\* a >>> n, 0 < n < 16
Shr32(a, n) ==
  LET p == Pow2(n)
  IN  W(Hi(a) \div p, (Hi(a) % p) * Pow2(16 - n) + (Lo(a) \div p))

\* (n * a) mod 2^32 for a multiplier 0 <= n < 2^15, half by half with the
\* carry; the product in the code is exact in double precision, so >>> 0 is
\* the reduction mod 2^32.
MulSmall32(a, n) ==
  LET lo == Lo(a) * n
      hi == Hi(a) * n + (lo \div H16)
  IN  W(hi % H16, lo % H16)


Min(a, b) == IF a <= b THEN a ELSE b
Max(a, b) == IF a >= b THEN a ELSE b

\* n iterations of a loop body, in order, from the loop state st; env is
\* what the body reads and leaves alone.  The iterations are taken in four
\* consecutive runs, each completed before the next starts.
RECURSIVE Loop(_, _, _, _)
Loop(Body(_, _), st, env, n) ==
  IF n <= 1 THEN (IF n = 1 THEN Body(st, env) ELSE st)
  ELSE LET q == (n + 3) \div 4
           m1 == Loop(Body, st, env, q)
           m2 == Loop(Body, m1, env, Min(q, n - q))
           m3 == Loop(Body, m2, env, Min(q, Max(n - 2 * q, 0)))
           m4 == Loop(Body, m3, env, Max(n - 3 * q, 0))
       IN  <<m1, m2, m3, m4>>[4]

---------------------------------------------------------------------------
(* CryptoJS WordArray: big-endian 32-bit words plus a count of significant  *)
(* bytes.  Hex.parse sets sigBytes = length / 2, which is a half-integer    *)
(* for a string of odd length, so the model stores sig2 = 2 * sigBytes.     *)

WordArray(ws, sigBytes2) == [words |-> ws, sig2 |-> sigBytes2]

\* words[i] || 0 with a 0-based index: an absent word reads as 0.
WordOr0(ws, i) == IF i + 1 <= Len(ws) THEN ws[i + 1] ELSE Zero32

---------------------------------------------------------------------------
(* Feistel core: TEA (tea.ts) and XTEA (xtea.ts)                            *)

TEA_ROUNDS == 32
TEA_DELTA == W(40503, 31161)          \* 0x9e3779b9
XTEA_ROUNDS == 32
XTEA_DELTA == W(40503, 31161)         \* 0x9e3779b9
BLOCK_SIZE == 8

\* the four key words k0..k3 (key.words[i] || 0)
KeyWords(key) ==
  (0 :> WordOr0(key.words, 0)) @@ (1 :> WordOr0(key.words, 1)) @@
  (2 :> WordOr0(key.words, 2)) @@ (3 :> WordOr0(key.words, 3))

\* ((v << 4) + ka) ^ (v + sum) ^ ((v >>> 5) + kb)
TeaMix(v, sum, ka, kb) ==
  Xor32(Xor32(Add32(Shl32(v, 4), ka), Add32(v, sum)), Add32(Shr32(v, 5), kb))

\* Loop state of the round loops: the two halves, the running sum and the
\* loop counter i.
LoopState(a, b, s, n) == [v0 |-> a, v1 |-> b, sum |-> s, i |-> n]

\* the two half-updates of a round of encryptBlock, for the sum of the
\* round and then for the new v0 (tea.ts 230-231)
TeaEncRoundV1(st, k, s, n0) ==
  Last(<<n0, LoopState(n0, Add32(st.v1, TeaMix(n0, s, k[2], k[3])), s, st.i + 1)>>)

TeaEncRoundV0(st, k, s) ==
  Last(<<s, TeaEncRoundV1(st, k, s, Add32(st.v0, TeaMix(st.v1, s, k[0], k[1])))>>)

\* variant: the sum is advanced after the two half-updates
TeaEncRoundLateSum(st, k) ==
  LET n0 == Add32(st.v0, TeaMix(st.v1, st.sum, k[0], k[1]))
      n1 == Add32(st.v1, TeaMix(n0, st.sum, k[2], k[3]))
  IN  LoopState(n0, n1, Add32(st.sum, TEA_DELTA), st.i + 1)

\* body of the for loop of encryptBlock (tea.ts 228-232)
TeaEncRound(st, k) == TeaEncRoundV0(st, k, Add32(st.sum, TEA_DELTA))

\* CryptoJS.lib.WordArray.create([v0, v1], 8) (tea.ts 234)
BlockOfHalves(fin) == Last(<<fin, WordArray(<<fin.v0, fin.v1>>, 2 * 8)>>)

\* for (let i = 0; i < TEA_ROUNDS; i++)
TeaEncRounds(st, k) == Loop(TeaEncRound, st, k, TEA_ROUNDS)

TeaEncryptBlock(block, key) ==
  BlockOfHalves(TeaEncRounds(LoopState(WordOr0(block.words, 0), WordOr0(block.words, 1),
                                      Zero32, 0), KeyWords(key)))

\* the second half-update of a round of decryptBlock and the step of the
\* sum, for the new v1 (tea.ts 251-252)
TeaDecRoundV0(st, k, n1) ==
  Last(<<n1, LoopState(Sub32(st.v0, TeaMix(n1, st.sum, k[0], k[1])), n1,
                       Sub32(st.sum, TEA_DELTA), st.i + 1)>>)

\* variant: the halves are undone in the order of encryption
TeaDecRoundHalvesSwapped(st, k) ==
  LET n0 == Sub32(st.v0, TeaMix(st.v1, st.sum, k[0], k[1]))
      n1 == Sub32(st.v1, TeaMix(n0, st.sum, k[2], k[3]))
  IN  LoopState(n0, n1, Sub32(st.sum, TEA_DELTA), st.i + 1)

\* body of the for loop of decryptBlock (tea.ts 249-253)
TeaDecRound(st, k) ==
  TeaDecRoundV0(st, k, Sub32(st.v1, TeaMix(st.v0, st.sum, k[2], k[3])))

\* for (let i = 0; i < TEA_ROUNDS; i++)
TeaDecRounds(st, k) == Loop(TeaDecRound, st, k, TEA_ROUNDS)

\* let sum = (TEA_DELTA * TEA_ROUNDS) >>> 0
TeaDecInitialSum == MulSmall32(TEA_DELTA, TEA_ROUNDS)

TeaDecryptBlock(block, key) ==
  BlockOfHalves(TeaDecRounds(LoopState(WordOr0(block.words, 0), WordOr0(block.words, 1),
                                      TeaDecInitialSum, 0), KeyWords(key)))

\* ((v << 4) ^ (v >>> 5)) + v
XteaF(v) == Add32(Xor32(Shl32(v, 4), Shr32(v, 5)), v)

\* sum & 3 and (sum >>> 11) & 3
XteaIdxLow(sum) == Lo(sum) % 4
XteaIdxHigh(sum) == Lo(Shr32(sum, 11)) % 4

\* JavaScript gives + and - precedence over ^, so the statement
\*   v0 = (v0 + (((v1 << 4) ^ (v1 >>> 5)) + v1) ^ (sum + keyArray[sum & 3])) >>> 0
\* evaluates (v0 + F(v1)) ^ (sum + k): the addition is done first and its
\* result is XORed with the key term (xtea.ts 230-234).
XteaEncRoundV1(st, k, n0, s) ==
  Last(<<n0, s,
         LoopState(n0, Xor32(Add32(st.v1, XteaF(n0)), Add32(s, k[XteaIdxHigh(s)])), s,
                   st.i + 1)>>)

XteaEncRound(st, k) ==
  XteaEncRoundV1(st, k,
                 Xor32(Add32(st.v0, XteaF(st.v1)), Add32(st.sum, k[XteaIdxLow(st.sum)])),
                 Add32(st.sum, XTEA_DELTA))

\* for (let i = 0; i < XTEA_ROUNDS; i++)
XteaEncRounds(st, k) == Loop(XteaEncRound, st, k, XTEA_ROUNDS)

XteaEncryptBlock(block, key) ==
  BlockOfHalves(XteaEncRounds(LoopState(WordOr0(block.words, 0), WordOr0(block.words, 1),
                                       Zero32, 0), KeyWords(key)))

\* likewise (v1 - F(v0)) ^ (sum + k) (xtea.ts 253-257)
XteaDecRoundV0(st, k, n1, s) ==
  Last(<<n1, s,
         LoopState(Xor32(Sub32(st.v0, XteaF(n1)), Add32(s, k[XteaIdxLow(s)])), n1, s,
                   st.i + 1)>>)

XteaDecRound(st, k) ==
  XteaDecRoundV0(st, k,
                 Xor32(Sub32(st.v1, XteaF(st.v0)), Add32(st.sum, k[XteaIdxHigh(st.sum)])),
                 Sub32(st.sum, XTEA_DELTA))

\* for (let i = 0; i < XTEA_ROUNDS; i++)
XteaDecRounds(st, k) == Loop(XteaDecRound, st, k, XTEA_ROUNDS)

XteaDecInitialSum == MulSmall32(XTEA_DELTA, XTEA_ROUNDS)

XteaDecryptBlock(block, key) ==
  BlockOfHalves(XteaDecRounds(LoopState(WordOr0(block.words, 0), WordOr0(block.words, 1),
                                       XteaDecInitialSum, 0), KeyWords(key)))

---------------------------------------------------------------------------
(* ARX core: ChaCha20 (class ChaCha20 in twofish.js)                        *)

\* rotateLeft(n, amount) = ((n << amount) | (n >>> (32 - amount))) >>> 0,
\* 0 < amount < 32
RECURSIVE RotateLeft(_, _)
RotateLeft(n, amount) ==
  IF amount >= 16 THEN
    IF amount = 16 THEN W(Lo(n), Hi(n)) ELSE RotateLeft(W(Lo(n), Hi(n)), amount - 16)
  ELSE LET keep == Pow2(16 - amount)
           p == Pow2(amount)
       IN  W((Hi(n) % keep) * p + (Lo(n) \div keep),
             (Lo(n) % keep) * p + (Hi(n) \div keep))

\* a byte array read at a 0-based index (Uint8Array / typed array access)
ByteAt(bytes, i) == IF i + 1 <= Len(bytes) THEN bytes[i + 1] ELSE 0

\* (b[0] | b[1] << 8 | b[2] << 16 | b[3] << 24) >>> 0 at byte offset o
WordLE(bytes, o) ==
  W(ByteAt(bytes, o + 2) + 256 * ByteAt(bytes, o + 3),
    ByteAt(bytes, o) + 256 * ByteAt(bytes, o + 1))

ChaChaConstants ==
  <<W(24944, 30821), W(13088, 25710), W(31074, 11570), W(27424, 25972)>>
  \* 0x61707865, 0x3320646e, 0x79622d32, 0x6b206574

\* state[x] = (state[x] + state[y]) >>> 0
AddInto(state, x, y) == [state EXCEPT ![x] = Add32(state[x], state[y])]

\* state[z] = rotateLeft(state[z] ^ state[x], r)
XorRotateInto(state, z, x, r) ==
  [state EXCEPT ![z] = RotateLeft(Xor32(state[z], state[x]), r)]

\* quarterRound(state, a, b, c, d): its eight assignments, innermost first
ChaChaQuarterRound(state, a, b, c, d) ==
  XorRotateInto(AddInto(
    XorRotateInto(AddInto(
      XorRotateInto(AddInto(
        XorRotateInto(AddInto(state, a, b), d, a, 16),
        c, d), b, c, 12),
      a, b), d, a, 8),
    c, d), b, c, 7)

\* variant: the nonce in words 12..14 and the counter in word 15
ChaChaInitialStateCounterLast(key, nonce, counter) ==
  Table([i \in 0..15 |->
           IF i < 4 THEN ChaChaConstants[i + 1]
           ELSE IF i < 12 THEN WordLE(key, (i - 4) * 4)
           ELSE IF i = 15 THEN counter
           ELSE WordLE(nonce, (i - 12) * 4)])

\* the state array built by chacha20Block (twofish.js 258-271)
ChaChaInitialState(key, nonce, counter) ==
  Table([i \in 0..15 |->
           IF i < 4 THEN ChaChaConstants[i + 1]
           ELSE IF i < 12 THEN WordLE(key, (i - 4) * 4)
           ELSE IF i = 12 THEN counter
           ELSE WordLE(nonce, (i - 13) * 4)])

\* the eight quarterRound calls of the loop body, in order (twofish.js
\* 275-282): four columns, then four diagonals
ChaChaSchedule ==
  << <<0, 4, 8, 12>>, <<1, 5, 9, 13>>, <<2, 6, 10, 14>>, <<3, 7, 11, 15>>,
     <<0, 5, 10, 15>>, <<1, 6, 11, 12>>, <<2, 7, 8, 13>>, <<3, 4, 9, 14>> >>

\* call number st.i + 1 of a schedule of quarterRound calls
ChaChaQuarterStep(st, schedule) ==
  LET q == schedule[st.i + 1]
  IN  [ws |-> ChaChaQuarterRound(st.ws, q[1], q[2], q[3], q[4]), i |-> st.i + 1]

\* body of the loop "for (let i = 0; i < 10; i++)" (twofish.js 274-283)
ChaChaDoubleRound(ws) ==
  Loop(ChaChaQuarterStep, [ws |-> ws, i |-> 0], ChaChaSchedule, Len(ChaChaSchedule)).ws

CHACHA_DOUBLE_ROUNDS == 10

ChaChaRoundStep(st, env) == [ws |-> ChaChaDoubleRound(st.ws), i |-> st.i + 1]

ChaChaRounds(st) == Loop(ChaChaRoundStep, st, {}, CHACHA_DOUBLE_ROUNDS).ws

\* byte b (0..3) of a word, least significant first
ByteOfWordLE(w, b) ==
  IF b = 0 THEN Lo(w) % 256 ELSE IF b = 1 THEN Lo(w) \div 256
  ELSE IF b = 2 THEN Hi(w) % 256 ELSE Hi(w) \div 256

\* ChaCha20.chacha20Block(key, nonce, counter): key and nonce are byte
\* arrays, counter a 32-bit word; the result is the 64-byte block.
\* the result bytes of chacha20Block for its 16 output words (twofish.js
\* 289-296)
ChaChaSerialize(final) ==
  Array([j \in 1..64 |-> ByteOfWordLE(final[(j - 1) \div 4], (j - 1) % 4)])

\* workingState[i] = (workingState[i] + state[i]) >>> 0 (twofish.js 285-287)
ChaChaAddState(workingState, state) ==
  Table([i \in 0..15 |-> Add32(workingState[i], state[i])])

\* chacha20Block from the initial state on (twofish.js 272-296)
ChaChaBlockOfState(state) ==
  ChaChaSerialize(ChaChaAddState(ChaChaRounds([ws |-> state, i |-> 0]), state))

chacha20Block(key, nonce, counter) ==
  ChaChaBlockOfState(ChaChaInitialState(key, nonce, counter))

\* a small counter as a 32-bit word
WordOfNat(n) == W(n \div H16, n % H16)

\* ChaCha20.encrypt(plaintext, key, nonce) on byte arrays: one keystream
\* block per 64 input bytes, the counter starting at 0 and incremented after
\* each block (twofish.js 298-310).
ChaChaXorBlocks(plaintext, keystream) ==
  Array([j \in 1..Len(plaintext) |->
           Xor8(plaintext[j], keystream[((j - 1) \div 64) + 1][((j - 1) % 64) + 1])])

ChaCha20Encrypt(plaintext, key, nonce) ==
  ChaChaXorBlocks(plaintext,
                  Array([c \in 1..((Len(plaintext) + 63) \div 64) |->
                           chacha20Block(key, nonce, WordOfNat(c - 1))]))

---------------------------------------------------------------------------
(* ARX core: Salsa20 (salsa20.ts)                                           *)

SalsaConstants ==
  <<W(24944, 30821), W(13088, 25710), W(31074, 11570), W(27424, 25972)>>
  \* 0x61707865, 0x3320646e, 0x79622d32, 0x6b206574

\* key.words[i] || key.words[j] || 0: the first operand is skipped when it
\* is absent or equal to 0
WordOrElse(ws, i, j) ==
  IF i + 1 <= Len(ws) /\ ws[i + 1] # Zero32 THEN ws[i + 1] ELSE WordOr0(ws, j)

\* salsa20.ts 253-258; every ^= stores a 32-bit pattern
XorRotatedSum(state, t, x, y, r) ==
  [state EXCEPT ![t] = Xor32(state[t], RotateLeft(Add32(state[x], state[y]), r))]

SalsaQuarterRound(state, a, b, c, d) ==
  XorRotatedSum(XorRotatedSum(XorRotatedSum(XorRotatedSum(state, b, a, d, 7),
                                            c, b, a, 9),
                              d, c, b, 13),
                a, d, c, 18)

\* salsa20.ts 207-225
SalsaInitialState(key, nonce, counter) ==
  Table([i \in 0..15 |->
     CASE i = 0  -> SalsaConstants[1]
       [] i \in 1..4 -> WordOr0(key.words, i - 1)
       [] i = 5  -> SalsaConstants[2]
       [] i = 6  -> WordOr0(nonce.words, 0)
       [] i = 7  -> WordOr0(nonce.words, 1)
       [] i = 8  -> WordOfNat(counter)
       [] i = 9  -> Zero32
       [] i = 10 -> SalsaConstants[3]
       [] i \in 11..14 -> WordOrElse(key.words, i - 7, i - 11)
       [] i = 15 -> SalsaConstants[4]])

\* body of the loop "for (let i = 0; i < rounds; i += 2)" (salsa20.ts 231-243)
\* the eight quarterRound calls of the loop body, in order (salsa20.ts
\* 233-242): the column round, then the row round
SalsaSchedule ==
  << <<0, 4, 8, 12>>, <<5, 9, 13, 1>>, <<10, 14, 2, 6>>, <<15, 3, 7, 11>>,
     <<0, 1, 2, 3>>, <<5, 6, 7, 4>>, <<10, 11, 8, 9>>, <<15, 12, 13, 14>> >>

SalsaQuarterStep(st, schedule) ==
  LET q == schedule[st.i + 1]
  IN  [ws |-> SalsaQuarterRound(st.ws, q[1], q[2], q[3], q[4]), i |-> st.i + 1]

SalsaDoubleRound(ws) ==
  Loop(SalsaQuarterStep, [ws |-> ws, i |-> 0], SalsaSchedule, Len(SalsaSchedule)).ws

SalsaRoundStep(st, env) == [ws |-> SalsaDoubleRound(st.ws), i |-> st.i + 2]

\* for (let i = 0; i < rounds; i += 2): (rounds + 1) \div 2 iterations
SalsaRounds(st, rounds) == Loop(SalsaRoundStep, st, {}, (rounds + 1) \div 2).ws

\* salsa20Block(key, nonce, counter, rounds): the 16 output words
\* workingState[i] = (workingState[i] + state[i]) >>> 0 (salsa20.ts 246-248)
SalsaAddState(workingState, state) ==
  Array([i \in 1..16 |-> Add32(workingState[i - 1], state[i - 1])])

\* salsa20Block from the initial state on (salsa20.ts 228-250)
SalsaBlockOfState(state, rounds) ==
  SalsaAddState(SalsaRounds([ws |-> state, i |-> 0], rounds), state)

salsa20Block(key, nonce, counter, rounds) ==
  SalsaBlockOfState(SalsaInitialState(key, nonce, counter), rounds)

\* getRoundsFromVariant: variantMap[variant] || 20
getRoundsFromVariant(variant) ==
  CASE variant = "salsa20/8" -> 8
    [] variant = "salsa20/12" -> 12
    [] OTHER -> 20

\* generateKeystream(key, nonce, length, rounds) with length2 = 2 * length:
\* ceil(length / 64) blocks for the counters 0, 1, ..., cut to
\* ceil(length / 4) words, sigBytes = length (salsa20.ts 187-200)
\* blocks.slice(0, Math.ceil(trimmedBytes / 4)) as a WordArray of length
\* bytes (salsa20.ts 197-199)
SalsaTrim(block, length2) ==
  WordArray(Array([j \in 1..((length2 + 7) \div 8) |->
                     block[((j - 1) \div 16) + 1][((j - 1) % 16) + 1]]),
            length2)

\* variant: every block computed for counter 0
generateKeystreamOneCounter(key, nonce, length2, rounds) ==
  SalsaTrim(Array([c \in 1..((length2 + 127) \div 128) |->
                     salsa20Block(key, nonce, 0, rounds)]),
            length2)

generateKeystream(key, nonce, length2, rounds) ==
  SalsaTrim(Array([c \in 1..((length2 + 127) \div 128) |->
                     salsa20Block(key, nonce, c - 1, rounds)]),
            length2)


\* xorWithKeystream(data, keystream) (salsa20.ts 264-272)
xorWithKeystream(data, keystream) ==
  WordArray(Array([i \in 1..Len(data.words) |->
                     IF i <= Len(keystream.words)
                     THEN Xor32(data.words[i], keystream.words[i])
                     ELSE data.words[i]]),
            data.sig2)

---------------------------------------------------------------------------
(* Strings and encoders.  A string is the sequence of its Unicode code     *)
(* points; hexadecimal strings use '0'-'9' (48..57), 'a'-'f' (97..102) and  *)
(* 'A'-'F' (65..70).  The encoders are the library calls of the engines:    *)
(* CryptoJS.enc.Hex / CryptoJS.enc.Utf8 in tea.ts, xtea.ts and salsa20.ts,  *)
(* TextEncoder / TextDecoder and hexToUint8Array / uint8ArrayToHex in the   *)
(* ChaCha20 engine.                                                         *)

\* value of a hexadecimal digit, -1 for any other character
HexDigitVal(c) ==
  IF c >= 48 /\ c <= 57 THEN c - 48
  ELSE IF c >= 97 /\ c <= 102 THEN c - 87
  ELSE IF c >= 65 /\ c <= 70 THEN c - 55
  ELSE -1

\* n.toString(16) of a value 0..15
HexDigitChar(n) == IF n < 10 THEN 48 + n ELSE 87 + n

\* parseInt(hexStr.substr(i, 2), 16) coerced by a shift or a typed-array
\* store, for the 0-based offset i: the longest hexadecimal prefix of the
\* one or two characters read, NaN (stored as 0) when there is none.
ParseHexByte(hexStr, i) ==
  LET d1 == HexDigitVal(hexStr[i + 1])
      d2 == IF i + 2 <= Len(hexStr) THEN HexDigitVal(hexStr[i + 2]) ELSE -1
  IN  IF d1 < 0 THEN 0 ELSE IF d2 < 0 THEN d1 ELSE 16 * d1 + d2

\* big-endian packing of bytes into words (CryptoJS word order)
WordsOfBytes(bytes) ==
  Array([w \in 1..((Len(bytes) + 3) \div 4) |->
           W(256 * ByteAt(bytes, 4 * w - 4) + ByteAt(bytes, 4 * w - 3),
             256 * ByteAt(bytes, 4 * w - 2) + ByteAt(bytes, 4 * w - 1))])

\* (words[i >>> 2] >>> (24 - (i % 4) * 8)) & 0xff, 0-based byte index i
ByteOfWords(ws, i) ==
  LET w == WordOr0(ws, i \div 4)
      b == i % 4
  IN  IF b = 0 THEN Hi(w) \div 256 ELSE IF b = 1 THEN Hi(w) % 256
      ELSE IF b = 2 THEN Lo(w) \div 256 ELSE Lo(w) % 256

\* the bytes an encoder reads from a WordArray: for (i = 0; i < sigBytes; i++)
BytesOfWordArray(wa) ==
  Array([i \in 1..((wa.sig2 + 1) \div 2) |-> ByteOfWords(wa.words, i - 1)])

\* CryptoJS.enc.Hex.parse(hexStr)
HexParse(hexStr) ==
  WordArray(WordsOfBytes(Array([k \in 1..((Len(hexStr) + 1) \div 2) |->
                                  ParseHexByte(hexStr, 2 * (k - 1))])),
            Len(hexStr))

\* lowercase hexadecimal text of a byte sequence
HexOfBytes(bytes) ==
  Array([c \in 1..(2 * Len(bytes)) |->
           LET b == bytes[(c + 1) \div 2]
           IN  IF c % 2 = 1 THEN HexDigitChar(b \div 16) ELSE HexDigitChar(b % 16)])

\* wordArray.toString(CryptoJS.enc.Hex)
HexStringify(wa) == HexOfBytes(BytesOfWordArray(wa))

\* number of UTF-8 bytes of a code point
Utf8Len(cp) ==
  IF cp < 128 THEN 1 ELSE IF cp < 2048 THEN 2 ELSE IF cp < 65536 THEN 3 ELSE 4

\* byte b (0-based) of the UTF-8 encoding of a code point
Utf8ByteOf(cp, b) ==
  LET n == Utf8Len(cp)
  IN  IF n = 1 THEN cp
      ELSE IF b = 0 THEN
             (IF n = 2 THEN 192 + (cp \div 64)
              ELSE IF n = 3 THEN 224 + (cp \div 4096)
              ELSE 240 + (cp \div 262144))
      ELSE 128 + ((cp \div Pow2(6 * (n - 1 - b))) % 64)

\* UTF-8 encoding of a string (encodeURIComponent / TextEncoder)
Utf8Encode(text) ==
  LET n == Len(text)
      off == Array([i \in 1..(n + 1) |->
                (i - 1) + Cardinality({j \in 1..(i - 1) : text[j] >= 128})
                        + Cardinality({j \in 1..(i - 1) : text[j] >= 2048})
                        + Cardinality({j \in 1..(i - 1) : text[j] >= 65536})])
  IN  Array([k \in 1..off[n + 1] |->
         LET ci == CHOOSE i \in 1..n : off[i] < k /\ k <= off[i + 1]
         IN  Utf8ByteOf(text[ci], k - off[ci] - 1)])

\* CryptoJS.enc.Utf8.parse(text)
Utf8Parse(text) ==
  LET bytes == Utf8Encode(text)
  IN  WordArray(WordsOfBytes(bytes), 2 * Len(bytes))

\* UTF-8 decoder automaton (the decoder of the Encoding standard): needed /
\* seen continuation bytes, the code point under construction, the range
\* allowed for the next continuation byte, the code points emitted so far
\* and whether an ill-formed sequence was met.
REPLACEMENT == 65533
Utf8Start == [needed |-> 0, seen |-> 0, cp |-> 0, lower |-> 128, upper |-> 191,
              out |-> <<>>, bad |-> FALSE]

Utf8Lead(st, b) ==
  IF b <= 127 THEN [st EXCEPT !.out = Append(st.out, b)]
  ELSE IF b >= 194 /\ b <= 223 THEN
    [st EXCEPT !.needed = 1, !.seen = 0, !.cp = b % 32]
  ELSE IF b >= 224 /\ b <= 239 THEN
    [st EXCEPT !.needed = 2, !.seen = 0, !.cp = b % 16,
               !.lower = IF b = 224 THEN 160 ELSE 128,
               !.upper = IF b = 237 THEN 159 ELSE 191]
  ELSE IF b >= 240 /\ b <= 244 THEN
    [st EXCEPT !.needed = 3, !.seen = 0, !.cp = b % 8,
               !.lower = IF b = 240 THEN 144 ELSE 128,
               !.upper = IF b = 244 THEN 143 ELSE 191]
  ELSE [st EXCEPT !.out = Append(st.out, REPLACEMENT), !.bad = TRUE]

Utf8Step(st, b) ==
  IF st.needed = 0 THEN Utf8Lead(st, b)
  ELSE IF b < st.lower \/ b > st.upper THEN
    Utf8Lead([st EXCEPT !.needed = 0, !.seen = 0, !.cp = 0, !.lower = 128,
                        !.upper = 191, !.out = Append(st.out, REPLACEMENT),
                        !.bad = TRUE], b)
  ELSE LET cp == st.cp * 64 + (b % 64)
       IN  IF st.seen + 1 = st.needed
           THEN [st EXCEPT !.needed = 0, !.seen = 0, !.cp = 0, !.lower = 128,
                           !.upper = 191, !.out = Append(st.out, cp)]
           ELSE [st EXCEPT !.seen = st.seen + 1, !.cp = cp, !.lower = 128,
                           !.upper = 191]

\* the automaton run over bytes[lo..hi], halving the range
RECURSIVE Utf8Run(_, _, _, _)
Utf8Run(st, bytes, lo, hi) ==
  IF lo > hi THEN st
  ELSE IF lo = hi THEN Utf8Step(st, bytes[lo])
  ELSE LET mid == (lo + hi) \div 2
           left == Utf8Run(st, bytes, lo, mid)
       IN  IF left.needed >= 0 THEN Utf8Run(left, bytes, mid + 1, hi) ELSE left

Utf8Finish(st) ==
  IF st.needed = 0 THEN st
  ELSE [st EXCEPT !.needed = 0, !.out = Append(st.out, REPLACEMENT), !.bad = TRUE]

Utf8Decode(bytes) == Utf8Finish(Utf8Run(Utf8Start, bytes, 1, Len(bytes)))

\* wordArray.toString(CryptoJS.enc.Utf8): decodeURIComponent(escape(latin1))
\* throws 'Malformed UTF-8 data' on an ill-formed sequence.
Utf8Stringify(wa) ==
  LET d == Utf8Decode(BytesOfWordArray(wa))
  IN  IF d.bad THEN [thrown |-> TRUE, text |-> <<>>]
      ELSE [thrown |-> FALSE, text |-> d.out]

\* new TextDecoder().decode(bytes): ill-formed sequences become U+FFFD and a
\* leading byte order mark is dropped; it never throws.
BOM == 65279
TextDecode(bytes) ==
  LET d == Utf8Decode(bytes)
  IN  IF Len(d.out) > 0 /\ d.out[1] = BOM THEN Tail(d.out) ELSE d.out

\* new TextEncoder().encode(text)
TextEncode(text) == Utf8Encode(text)

---------------------------------------------------------------------------
(* Block-mode wrapper of TeaEngine and XteaEngine.  The two classes carry   *)
(* the same wrapper code (tea.ts 169-214, 258-295 = xtea.ts 169-214,        *)
(* 262-299); alg selects the block function of the class.                   *)

EncryptBlock(alg, block, key) ==
  IF alg = "tea" THEN TeaEncryptBlock(block, key) ELSE XteaEncryptBlock(block, key)

DecryptBlock(alg, block, key) ==
  IF alg = "tea" THEN TeaDecryptBlock(block, key) ELSE XteaDecryptBlock(block, key)

\* variant: the words of the last block that the data does not have are
\* left out
splitIntoBlocksUnpadded(data) ==
  Array([b \in 1..((Len(data.words) + 1) \div 2) |->
           WordArray(SubSeq(data.words, 2 * b - 1, Min(2 * b, Len(data.words))),
                     2 * BLOCK_SIZE)])

\* splitIntoBlocks(data, 8): one block per two words of data.words, a short
\* last block is padded with 0 words; no word at all gives one zero block.
splitIntoBlocks(data) ==
  LET n == Len(data.words)
  IN  IF n = 0 THEN << WordArray(<<Zero32, Zero32>>, 2 * BLOCK_SIZE) >>
      ELSE Array([b \in 1..((n + 1) \div 2) |->
                    WordArray(<<data.words[2 * b - 1], WordOr0(data.words, 2 * b - 1)>>,
                              2 * BLOCK_SIZE)])

\* xorBlocks(a, b): XOR over the words both have, sigBytes of a
xorBlocks(a, b) ==
  WordArray(Array([i \in 1..Len(a.words) |->
                     IF i <= Len(b.words) THEN Xor32(a.words[i], b.words[i])
                     ELSE a.words[i]]),
            a.sig2)

\* concatBlocks(blocks); every block here has two words
concatBlocks(blocks) ==
  WordArray(Array([i \in 1..(2 * Len(blocks)) |->
                     blocks[(i + 1) \div 2].words[2 - (i % 2)]]),
            2 * BLOCK_SIZE * Len(blocks))

\* encryptedBlocks.push(encrypted); previousBlock = encrypted (tea.ts
\* 186-187)
PushEncrypted(st, encrypted) ==
  [previousBlock |-> encrypted, out |-> Append(st.out, encrypted), i |-> st.i + 1]

\* variant: previousBlock is left at the IV
EncryptCBCLoopUnchained(st, env) ==
  [previousBlock |-> st.previousBlock,
   out |-> Append(st.out,
                  EncryptBlock(env.alg, xorBlocks(env.blocks[st.i], st.previousBlock),
                               env.key)),
   i |-> st.i + 1]

\* body of the loop of encryptCBC (tea.ts 183-188): the loop state is
\* previousBlock, encryptedBlocks and the position in blocks
EncryptCBCLoop(st, env) ==
  PushEncrypted(st, EncryptBlock(env.alg, xorBlocks(env.blocks[st.i], st.previousBlock),
                                 env.key))

\* let previousBlock = iv; const encryptedBlocks = [] (tea.ts 180-181)
CBCInitial(iv) == [previousBlock |-> iv, out |-> <<>>, i |-> 1]

\* what the loop bodies read and do not change
CBCEnv(alg, blocks, key) == [alg |-> alg, blocks |-> blocks, key |-> key]

\* encryptedBlocks after "for (const block of blocks)" (tea.ts 183-188)
EncryptedBlocks(alg, blocks, key, iv) ==
  Loop(EncryptCBCLoop, CBCInitial(iv), CBCEnv(alg, blocks, key), Len(blocks)).out

encryptCBC(alg, plaintext, key, iv) ==
  HexStringify(concatBlocks(EncryptedBlocks(alg, splitIntoBlocks(plaintext), key, iv)))

\* variant: previousBlock is set to the decrypted block
DecryptCBCLoopPlainChained(st, env) ==
  [previousBlock |-> xorBlocks(DecryptBlock(env.alg, env.blocks[st.i], env.key),
                               st.previousBlock),
   out |-> Append(st.out, xorBlocks(DecryptBlock(env.alg, env.blocks[st.i], env.key),
                                    st.previousBlock)),
   i |-> st.i + 1]

\* body of the loop of decryptCBC (tea.ts 198-203)
DecryptCBCLoop(st, env) ==
  [previousBlock |-> env.blocks[st.i],
   out |-> Append(st.out, xorBlocks(DecryptBlock(env.alg, env.blocks[st.i], env.key),
                                    st.previousBlock)),
   i |-> st.i + 1]

\* decryptedBlocks after "for (const block of blocks)" (tea.ts 198-203)
DecryptedBlocks(alg, blocks, key, iv) ==
  Loop(DecryptCBCLoop, CBCInitial(iv), CBCEnv(alg, blocks, key), Len(blocks)).out

decryptCBC(alg, ciphertext, key, iv) ==
  concatBlocks(DecryptedBlocks(alg, splitIntoBlocks(ciphertext), key, iv))

\* blocks.map(block => encrypt ? encryptBlock(block, key) : decryptBlock(block, key))
MapBlocks(alg, blocks, key, encrypt) ==
  Array([b \in 1..Len(blocks) |->
           IF encrypt THEN EncryptBlock(alg, blocks[b], key)
           ELSE DecryptBlock(alg, blocks[b], key)])

processBlocks(alg, data, key, encrypt) ==
  concatBlocks(MapBlocks(alg, splitIntoBlocks(data), key, encrypt))

encryptECB(alg, plaintext, key) == HexStringify(processBlocks(alg, plaintext, key, TRUE))

decryptECB(alg, ciphertext, key) == processBlocks(alg, ciphertext, key, FALSE)

---------------------------------------------------------------------------
(* Engine facades.  An optional value (a parameter that may be undefined, a *)
(* field that may be missing) is a set with at most one element.            *)

None == {}
Some(v) == {v}
TheVal(o) == CHOOSE v \in o : TRUE

\* JavaScript truthiness of an optional string: undefined and '' are falsy
Truthy(o) == o # None /\ Len(TheVal(o)) > 0

\* EncryptionParams / DecryptionParams (types/crypto.ts)
Params(pt, ct, k, i, n, m, v) ==
  [plaintext |-> pt, ciphertext |-> ct, key |-> k, iv |-> i, nonce |-> n,
   mode |-> m, variant |-> v]

\* CryptoOperation (types/crypto.ts)
Metadata(kl, il, nl, m, v) ==
  [keyLength |-> kl, ivLength |-> il, nonceLength |-> nl, mode |-> m, variant |-> v]

Success(res, md) ==
  Last(<<res, [success |-> TRUE, result |-> Some(res), error |-> None,
               metadata |-> Some(md)]>>)

Failure(msg) ==
  [success |-> FALSE, result |-> None, error |-> Some(msg), metadata |-> None]

\* Outcome of the body of a try block: a returned value or a thrown Error
Return(v) == Last(<<v, [thrown |-> FALSE, message |-> "", value |-> Some(v)]>>)
Throw(msg) == [thrown |-> TRUE, message |-> msg, value |-> None]

\* How a call completes for its caller: raised is TRUE when an exception
\* leaves the method, otherwise op holds the CryptoOperation returned.
Completed(v) == [raised |-> FALSE, op |-> Some(v)]
Raised == [raised |-> TRUE, op |-> None]
NoCall == [raised |-> FALSE, op |-> None]

\* variant: the catch clause throws the error on to the caller
TryCatchRethrow(outcome) ==
  IF outcome.thrown THEN Raised ELSE Completed(TheVal(outcome.value))

\* try { body } catch (error) { return { success: false, error: error.message } }
\* (every value thrown in these bodies is an Error, so the fallback text of
\* the catch clauses is never used)
TryCatch(outcome) ==
  IF outcome.thrown THEN Completed(Failure(outcome.message))
  ELSE Completed(TheVal(outcome.value))

\* variant: any key of at least 16 bytes is accepted
FeistelValidateKeyAtLeast(key) ==
  IF key = None THEN FALSE ELSE HexParse(TheVal(key)).sig2 >= 2 * 16

\* TeaEngine.validateKey / XteaEngine.validateKey: Hex.parse(key).sigBytes
\* === 16; Hex.parse(undefined) throws and the catch returns false
FeistelValidateKey(key) ==
  IF key = None THEN FALSE ELSE HexParse(TheVal(key)).sig2 = 2 * 16

InvalidKeyMessage(alg) ==
  IF alg = "tea" THEN "Invalid TEA key. Must be exactly 16 bytes (128 bits)"
  ELSE "Invalid XTEA key. Must be exactly 16 bytes (128 bits)"

\* `Mode ${mode} not implemented for TEA`; the mode text is left out
ModeMessage(alg) ==
  IF alg = "tea" THEN "Mode not implemented for TEA"
  ELSE "Mode not implemented for XTEA"

\* variant: every mode other than ECB is taken as CBC
FeistelModeElseCBC(params) == IF params.mode = Some("ECB") THEN "ECB" ELSE "CBC"

\* mode = 'CBC' and variant = <engine id> are the destructuring defaults
FeistelMode(params) == IF params.mode = None THEN "CBC" ELSE TheVal(params.mode)
FeistelVariant(alg, params) ==
  IF params.variant = None THEN alg ELSE TheVal(params.variant)

\* variant: the IV is drawn at random whatever the caller passed
FeistelIvAlwaysRandom(params, random) == random

\* const ivBytes = iv ? CryptoJS.enc.Hex.parse(iv)
\*                    : CryptoJS.lib.WordArray.random(8)   (tea.ts 63)
FeistelIv(params, random) ==
  IF Truthy(params.iv) THEN HexParse(TheVal(params.iv)) ELSE random

\* the metadata of a returned operation (tea.ts 79-84, 125-130)
FeistelMetadata(mode, variant) ==
  Metadata(128, IF mode # "ECB" THEN Some(8) ELSE None, None, Some(mode), Some(variant))

\* the switch over the mode and the return statement of encrypt (tea.ts
\* 66-85)
FeistelEncryptMode(alg, mode, variant, plaintextBytes, keyBytes, ivBytes) ==
  Last(<<keyBytes, ivBytes, plaintextBytes,
         IF mode = "ECB"
         THEN Return(Success(encryptECB(alg, plaintextBytes, keyBytes),
                             FeistelMetadata(mode, variant)))
         ELSE IF mode = "CBC"
         THEN Return(Success(encryptCBC(alg, plaintextBytes, keyBytes, ivBytes),
                             FeistelMetadata(mode, variant)))
         ELSE Throw(ModeMessage(alg))>>)

\* body of the try block of encrypt (tea.ts 52-85, xtea.ts 52-85); random is
\* the value of CryptoJS.lib.WordArray.random(8)
FeistelEncryptBody(alg, params, random) ==
  IF ~Truthy(params.plaintext) \/ ~Truthy(params.key)
  THEN Throw("Plaintext and key are required")
  ELSE IF ~FeistelValidateKey(params.key) THEN Throw(InvalidKeyMessage(alg))
  ELSE FeistelEncryptMode(alg, FeistelMode(params), FeistelVariant(alg, params),
                          Utf8Parse(TheVal(params.plaintext)),
                          HexParse(TheVal(params.key)), FeistelIv(params, random))

FeistelEncrypt(alg, params, random) == TryCatch(FeistelEncryptBody(alg, params, random))

\* the return statement of a decrypt for the outcome of
\* decrypted.toString(CryptoJS.enc.Utf8)
Utf8Return(str, md) ==
  IF str.thrown THEN Throw("Malformed UTF-8 data") ELSE Return(Success(str.text, md))

\* decrypted.toString(CryptoJS.enc.Utf8) inside the object literal of the
\* return statement: a malformed sequence throws before anything is returned
FeistelDecryptReturn(decrypted, md) ==
  Last(<<decrypted, Utf8Return(Utf8Stringify(decrypted), md)>>)

\* the switch over the mode and the return statement of decrypt (tea.ts
\* 109-131)
FeistelDecryptMode(alg, mode, variant, params, ciphertextBytes, keyBytes) ==
  Last(<<keyBytes, ciphertextBytes,
         IF mode = "ECB"
         THEN FeistelDecryptReturn(decryptECB(alg, ciphertextBytes, keyBytes),
                                   FeistelMetadata(mode, variant))
         ELSE IF mode = "CBC"
         THEN IF ~Truthy(params.iv) THEN Throw("IV is required for CBC mode")
              ELSE FeistelDecryptReturn(decryptCBC(alg, ciphertextBytes, keyBytes,
                                                   HexParse(TheVal(params.iv))),
                                        FeistelMetadata(mode, variant))
         ELSE Throw(ModeMessage(alg))>>)

\* body of the try block of decrypt (tea.ts 96-132, xtea.ts 96-132)
FeistelDecryptBody(alg, params) ==
  IF ~Truthy(params.ciphertext) \/ ~Truthy(params.key)
  THEN Throw("Ciphertext and key are required")
  ELSE IF ~FeistelValidateKey(params.key) THEN Throw(InvalidKeyMessage(alg))
  ELSE FeistelDecryptMode(alg, FeistelMode(params), FeistelVariant(alg, params), params,
                          HexParse(TheVal(params.ciphertext)),
                          HexParse(TheVal(params.key)))

FeistelDecrypt(alg, params) == TryCatch(FeistelDecryptBody(alg, params))

\* Salsa20Engine.validateKey / validateNonce (salsa20.ts 156-176)
Salsa20ValidateKey(key) ==
  IF key = None THEN FALSE
  ELSE LET sig2 == HexParse(TheVal(key)).sig2
       IN  sig2 = 2 * 16 \/ sig2 = 2 * 32

\* variant: any nonce of at least 8 bytes is accepted
Salsa20ValidateNonceAtLeast(nonce) ==
  IF nonce = None THEN FALSE ELSE HexParse(TheVal(nonce)).sig2 >= 2 * 8

Salsa20ValidateNonce(nonce) ==
  IF nonce = None THEN FALSE ELSE HexParse(TheVal(nonce)).sig2 = 2 * 8

\* variant = 'salsa20/20' is the destructuring default
Salsa20Variant(params) ==
  IF params.variant = None THEN "salsa20/20" ELSE TheVal(params.variant)

\* the checks that open both try blocks (salsa20.ts 53-67, 98-112);
\* the result is the message thrown, or None when all checks pass
Salsa20Check(data, params, what) ==
  IF ~Truthy(data) \/ ~Truthy(params.key) THEN Some(what)
  ELSE IF ~Truthy(params.nonce) THEN Some("Nonce is required for Salsa20")
  ELSE IF ~Salsa20ValidateKey(params.key)
  THEN Some("Invalid Salsa20 key. Must be 16 or 32 bytes")
  ELSE IF ~Salsa20ValidateNonce(params.nonce)
  THEN Some("Invalid Salsa20 nonce. Must be 8 bytes")
  ELSE None

\* the metadata of a returned operation (salsa20.ts 80-84, 123-127)
Salsa20Metadata(keyBytes, variant) ==
  Metadata((keyBytes.sig2 \div 2) * 8, None, Some(8), None, Some(variant))

\* the keystream for the data and its XOR with the data (salsa20.ts 75-77,
\* 118-120)
Salsa20Crypt(dataBytes, keyBytes, nonceBytes, variant) ==
  xorWithKeystream(dataBytes,
                   generateKeystream(keyBytes, nonceBytes, dataBytes.sig2,
                                     getRoundsFromVariant(variant)))

\* encrypt from the parsed inputs on (salsa20.ts 75-85)
Salsa20EncryptReturn(plaintextBytes, keyBytes, nonceBytes, variant) ==
  Return(Success(HexStringify(Salsa20Crypt(plaintextBytes, keyBytes, nonceBytes, variant)),
                 Salsa20Metadata(keyBytes, variant)))

\* body of the try block of encrypt (salsa20.ts 51-85)
Salsa20EncryptBody(params) ==
  LET failed == Salsa20Check(params.plaintext, params, "Plaintext and key are required")
  IN  IF failed # None THEN Throw(TheVal(failed))
      ELSE Salsa20EncryptReturn(Utf8Parse(TheVal(params.plaintext)),
                                HexParse(TheVal(params.key)),
                                HexParse(TheVal(params.nonce)), Salsa20Variant(params))

Salsa20Encrypt(params) == TryCatch(Salsa20EncryptBody(params))

\* decrypt from the parsed inputs on (salsa20.ts 118-128)
Salsa20DecryptReturn(ciphertextBytes, keyBytes, nonceBytes, variant) ==
  Utf8Return(Utf8Stringify(Salsa20Crypt(ciphertextBytes, keyBytes, nonceBytes, variant)),
             Salsa20Metadata(keyBytes, variant))

\* body of the try block of decrypt (salsa20.ts 96-128)
Salsa20DecryptBody(params) ==
  LET failed == Salsa20Check(params.ciphertext, params, "Ciphertext and key are required")
  IN  IF failed # None THEN Throw(TheVal(failed))
      ELSE Salsa20DecryptReturn(HexParse(TheVal(params.ciphertext)),
                                HexParse(TheVal(params.key)),
                                HexParse(TheVal(params.nonce)), Salsa20Variant(params))

Salsa20Decrypt(params) == TryCatch(Salsa20DecryptBody(params))

\* isValidHex(str) (crypto-utils.ts 144-146): /^[0-9a-fA-F]*$/ and an even
\* length; undefined is tested as the text 'undefined'
isValidHex(str) ==
  /\ str # None
  /\ \A i \in 1..Len(TheVal(str)) : HexDigitVal(TheVal(str)[i]) >= 0
  /\ Len(TheVal(str)) % 2 = 0

\* validateKeyLength(key, validLengths, 'hex') (crypto-utils.ts 170-190)
validateKeyLength(key, validLengths) ==
  IF ~isValidHex(key) THEN FALSE ELSE (Len(TheVal(key)) \div 2) \in validLengths

ChaCha20ValidateKey(key) == validateKeyLength(key, {32})
ChaCha20ValidateNonce(nonce) == validateKeyLength(nonce, {12})

\* hexToUint8Array(hex) and uint8ArrayToHex(bytes) (twofish.js 351-360)
hexToUint8Array(hex) ==
  Array([k \in 1..(Len(hex) \div 2) |-> ParseHexByte(hex, 2 * (k - 1))])

uint8ArrayToHex(bytes) == HexOfBytes(bytes)

ChaCha20Metadata == Metadata(32, None, Some(12), Some("Stream"), Some("chacha20"))

\* new TextEncoder().encode(plaintext): undefined encodes as the empty text
ChaCha20Plaintext(params) ==
  IF params.plaintext = None THEN <<>> ELSE TheVal(params.plaintext)

\* body of the try block of ChaCha20Engine.encrypt (twofish.js 363-393)
ChaCha20EncryptBody(params) ==
  IF ~ChaCha20ValidateKey(params.key)
  THEN Return(Failure("Invalid key length. Expected 32 bytes (64 hex characters)."))
  ELSE IF ~Truthy(params.nonce) \/ ~ChaCha20ValidateNonce(params.nonce)
  THEN Return(Failure("Invalid nonce length. Expected 12 bytes (24 hex characters)."))
  ELSE Return(Success(uint8ArrayToHex(
                        ChaCha20Encrypt(TextEncode(ChaCha20Plaintext(params)),
                                        hexToUint8Array(TheVal(params.key)),
                                        hexToUint8Array(TheVal(params.nonce)))),
                      ChaCha20Metadata))

ChaCha20EngineEncrypt(params) == TryCatch(ChaCha20EncryptBody(params))

\* body of the try block of ChaCha20Engine.decrypt (twofish.js 404-442)
ChaCha20DecryptBody(params) ==
  IF ~ChaCha20ValidateKey(params.key)
  THEN Return(Failure("Invalid key length. Expected 32 bytes (64 hex characters)."))
  ELSE IF ~Truthy(params.nonce) \/ ~ChaCha20ValidateNonce(params.nonce)
  THEN Return(Failure("Invalid nonce length. Expected 12 bytes (24 hex characters)."))
  ELSE IF ~isValidHex(params.ciphertext)
  THEN Return(Failure("Invalid ciphertext format. Must be valid hexadecimal."))
  ELSE Return(Success(TextDecode(
                        ChaCha20Encrypt(hexToUint8Array(TheVal(params.ciphertext)),
                                        hexToUint8Array(TheVal(params.key)),
                                        hexToUint8Array(TheVal(params.nonce)))),
                      ChaCha20Metadata))

ChaCha20EngineDecrypt(params) == TryCatch(ChaCha20DecryptBody(params))

\* engine.encrypt(params) / engine.decrypt(params) for the engine with the
\* given id
EngineEncrypt(id, params, random) ==
  CASE id = "tea" \/ id = "xtea" -> FeistelEncrypt(id, params, random)
    [] id = "salsa20" -> Salsa20Encrypt(params)
    [] id = "chacha20" -> ChaCha20EngineEncrypt(params)

EngineDecrypt(id, params) ==
  CASE id = "tea" \/ id = "xtea" -> FeistelDecrypt(id, params)
    [] id = "salsa20" -> Salsa20Decrypt(params)
    [] id = "chacha20" -> ChaCha20EngineDecrypt(params)

---------------------------------------------------------------------------
(* Inputs.  Keys, IVs, nonces, blocks and texts are drawn from families of  *)
(* byte patterns indexed by a seed; seed 0 is the all-zero pattern.         *)

MaxSeed == 1          \* key / IV / nonce patterns 0..MaxSeed
MaxTextSeed == 2      \* text families 0..MaxTextSeed
MaxCoreSeed == 4      \* block and key patterns of the primitive-level runs
MaxBlocks == 3        \* message length, in blocks, of the paired encryptions

PByte(seed, i) ==
  IF seed = 0 THEN 0 ELSE (seed * 37 + i * 101 + seed * i * i * 7) % 256

PBytes(seed, n) == Array([i \in 1..n |-> PByte(seed, i)])
PHex(seed, n) == HexOfBytes(PBytes(seed, n))

\* plaintext lengths (UTF-8 bytes) named by the round-trip property
TestLengths == {0, 1, 8, 63, 64, 65}

\* A text of exactly len UTF-8 bytes.  Family 0 is 'ABCDEFGH...'; family 1
\* starts with U+00E9 (2 bytes) and family 2 with U+FEFF (3 bytes) when
\* there is room; further families are ASCII digits and letters.
Text(len, seed) ==
  IF seed = 0 THEN Array([i \in 1..len |-> 65 + ((i - 1) % 26)])
  ELSE IF seed = 1 /\ len >= 2
       THEN <<233>> \o Array([i \in 1..(len - 2) |-> 97 + ((i - 1) % 26)])
  ELSE IF seed = 2 /\ len >= 3
       THEN <<65279>> \o Array([i \in 1..(len - 3) |-> 97 + ((i * 7) % 26)])
  ELSE Array([i \in 1..len |-> 48 + ((i * (seed + 2)) % 75)])

EngineIds == {"tea", "xtea", "salsa20", "chacha20"}
FeistelIds == {"tea", "xtea"}

\* what the claims call valid: the key sizes, IV / nonce size, modes and
\* variants each algorithm requires (spec section 3 and 4)
RequiredKeySizes(id) ==
  CASE id \in FeistelIds -> {16}
    [] id = "salsa20" -> {16, 32}
    [] id = "chacha20" -> {32}

RequiredIvSize(id) == IF id = "chacha20" THEN 12 ELSE 8

SupportedModes(id) == IF id \in FeistelIds THEN {"ECB", "CBC"} ELSE {"Stream"}

SupportedVariants(id) ==
  CASE id = "tea" -> {"tea"}
    [] id = "xtea" -> {"xtea"}
    [] id = "salsa20" -> {"salsa20/8", "salsa20/12", "salsa20/20"}
    [] id = "chacha20" -> {"chacha20"}

\* The engine reads iv (Feistel) or nonce (stream); the other is left out.
WithIv(id, pt, ct, k, ivn, m, v) ==
  IF id \in FeistelIds THEN Params(pt, ct, k, ivn, None, m, v)
  ELSE Params(pt, ct, k, None, ivn, m, v)

IvOf(id, p) == IF id \in FeistelIds THEN p.iv ELSE p.nonce

ValidKeys(id) ==
  {Some(PHex(s, n)) : s \in 0..MaxSeed, n \in RequiredKeySizes(id)}

ValidIvs(id) == {Some(PHex(s, RequiredIvSize(id))) : s \in 0..MaxSeed}

\* key and IV / nonce of one pattern; a Feistel caller may also leave the
\* IV out
GoodMaterial(id) ==
  {<<Some(PHex(s, n)), Some(PHex(s, RequiredIvSize(id)))>> :
     s \in 0..MaxSeed, n \in RequiredKeySizes(id)}
  \cup (IF id \in FeistelIds
        THEN {<<Some(PHex(s, n)), None>> : s \in 0..MaxSeed, n \in RequiredKeySizes(id)}
        ELSE {})

\* Parameter sets of well-formed calls: every test length, every valid key
\* size, every supported mode and variant.
GoodModes(id) == IF id \in FeistelIds THEN {Some("ECB"), Some("CBC")} ELSE {None}

GoodVariants(id) ==
  IF id = "salsa20" THEN {Some(v) : v \in SupportedVariants(id)} ELSE {None}

GoodTexts == {Some(Text(len, s)) : len \in TestLengths, s \in 0..MaxTextSeed}

GoodEncryptionParams(id) ==
  {WithIv(id, pt, None, kv[1], kv[2], m, v) :
     pt \in GoodTexts, kv \in GoodMaterial(id),
     m \in GoodModes(id), v \in GoodVariants(id)}

\* Malformed material: absent, empty, one byte short or long of each
\* required size, an odd number of digits, a non-hexadecimal character.
NonHex(n) == Array([i \in 1..(2 * n) |-> IF i = 3 THEN 103 ELSE 49])

OddKeys(id) ==
  {None, Some(<<>>), Some(NonHex(CHOOSE n \in RequiredKeySizes(id) : TRUE))}
  \cup {Some(PHex(1, n + d)) : n \in RequiredKeySizes(id), d \in {-1, 1}}
  \cup {Some(Tail(PHex(1, n))) : n \in RequiredKeySizes(id)}
  \cup {Some(PHex(1, CHOOSE n \in RequiredKeySizes(id) : TRUE))}

OddIvs(id) ==
  {None, Some(<<>>), Some(PHex(1, RequiredIvSize(id) - 4)),
   Some(PHex(1, RequiredIvSize(id) + 4)), Some(PHex(1, RequiredIvSize(id)))}

OddModes(id) ==
  IF id \in FeistelIds THEN {None, Some("ECB"), Some("CBC"), Some("CTR")}
  ELSE {None, Some("Stream")}

OddVariants(id) == IF id = "salsa20" THEN {None, Some("salsa20/99")} ELSE {None}

OddTexts == {None, Some(<<>>), Some(Text(5, 0))}

OddEncryptionParams(id) ==
  {WithIv(id, pt, None, k, ivn, m, v) :
     pt \in OddTexts, k \in OddKeys(id), ivn \in OddIvs(id),
     m \in OddModes(id), v \in OddVariants(id)}

\* Ciphertexts that no encryption of the run produced.
ForeignCiphertexts ==
  {None, Some(<<>>), Some(PHex(1, 8)), Some(PHex(0, 16)), Some(Tail(PHex(1, 8))),
   Some(NonHex(8)), Some(PHex(1, 3))}

DecryptionParams(id) ==
  {WithIv(id, None, ct, k, ivn, m, v) :
     ct \in ForeignCiphertexts, k \in OddKeys(id), ivn \in OddIvs(id),
     m \in OddModes(id), v \in OddVariants(id)}

\* values CryptoJS.lib.WordArray.random(8) may return
RandomIvs == {HexParse(PHex(2, 8)), HexParse(PHex(3, 8))}

---------------------------------------------------------------------------
(* Registry (part_007 555-661): two Maps keyed by engine.metadata.id.  A    *)
(* Map is the sequence of its <<key, value>> entries in insertion order.    *)

MaxInstances == 2     \* engine objects 1..MaxInstances of each class

\* map.has(key), map.get(key) (None for undefined), Array.from(map.keys())
MapHas(map, key) == \E i \in 1..Len(map) : map[i][1] = key
MapGet(map, key) == {map[i][2] : i \in {j \in 1..Len(map) : map[j][1] = key}}
MapKeys(map) == Array([i \in 1..Len(map) |-> map[i][1]])

\* map.set(key, value): the value of an existing key is replaced in place,
\* a new key is added at the end
MapSet(map, key, value) ==
  IF MapHas(map, key)
  THEN Array([i \in 1..Len(map) |-> IF map[i][1] = key THEN <<key, value>> ELSE map[i]])
  ELSE Append(map, <<key, value>>)

\* variant: the block stops before the last engine
StaticIdsButLast ==
  <<"aes", "chacha20", "rsa", "des", "3des", "blowfish", "rc4", "twofish",
    "serpent", "camellia", "cast128", "idea", "salsa20", "tea", "xtea", "ecc",
    "seed", "aria", "kyber">>

\* the ids of the engines the static initialization block registers, in its
\* order (part_007 638-657), and metadata.category of each engine
StaticIds ==
  <<"aes", "chacha20", "rsa", "des", "3des", "blowfish", "rc4", "twofish",
    "serpent", "camellia", "cast128", "idea", "salsa20", "tea", "xtea", "ecc",
    "seed", "aria", "kyber", "sphincs">>

EngineCategory(id) ==
  IF id \in {"rsa", "ecc"} THEN "asymmetric"
  ELSE IF id \in {"kyber", "sphincs"} THEN "post-quantum"
  ELSE "symmetric"

\* new TeaEngine(), ...: the n-th object of the class, with its own metadata
EngineInstance(id, n) ==
  [metadata |-> [id |-> id, category |-> EngineCategory(id), instance |-> n],
   instance |-> n]

EngineInstances == {EngineInstance(id, n) : id \in EngineIds, n \in 1..MaxInstances}

\* variant: every registration adds an entry
RegisterEngineAppend(map, e) == Append(map, <<e.metadata.id, e>>)

\* this.engines.set(engine.metadata.id, engine)
RegisterEngine(map, e) == MapSet(map, e.metadata.id, e)

\* variant: the metadata of an id that is present is kept
RegisterMetadataKeepFirst(map, e) ==
  IF MapHas(map, e.metadata.id) THEN map ELSE MapSet(map, e.metadata.id, e.metadata)

\* this.metadata.set(engine.metadata.id, engine.metadata)
RegisterMetadata(map, e) == MapSet(map, e.metadata.id, e.metadata)

\* the register calls of the static initialization block (part_007 636-657)
StaticEngines == Array([i \in 1..Len(StaticIds) |-> EngineInstance(StaticIds[i], 1)])

RECURSIVE RegisterAllEngines(_, _, _)
RegisterAllEngines(map, es, k) ==
  IF k > Len(es) THEN map ELSE RegisterAllEngines(RegisterEngine(map, es[k]), es, k + 1)

RECURSIVE RegisterAllMetadata(_, _, _)
RegisterAllMetadata(map, es, k) ==
  IF k > Len(es) THEN map ELSE RegisterAllMetadata(RegisterMetadata(map, es[k]), es, k + 1)

PopulatedEngines == RegisterAllEngines(<<>>, StaticEngines, 1)

PopulatedMetadata == RegisterAllMetadata(<<>>, StaticEngines, 1)

\* Array.from(map.values())
MapValues(map) == Array([i \in 1..Len(map) |-> map[i][2]])

\* CipherSearchEngine.initialize(cipherData) (part_000 51-89): the Map
\* ciphers is cleared and every cipher is set under its id
RECURSIVE AddCiphers(_, _, _)
AddCiphers(map, cipherData, k) ==
  IF k > Len(cipherData) THEN map
  ELSE AddCiphers(MapSet(map, cipherData[k].id, cipherData[k]), cipherData, k + 1)

SearchInitialize(cipherData) == AddCiphers(<<>>, cipherData, 1)

PopulatedCiphers == SearchInitialize(MapValues(PopulatedMetadata))

---------------------------------------------------------------------------
(* State                                                                    *)

VARIABLES
  engines,  \* CipherRegistry.engines
  metadata, \* CipherRegistry.metadata
  initialized, \* CipherRegistry.initialized
  ciphers,  \* cipherSearch.ciphers
  frames,   \* the local variables of the calls in progress
  engine,   \* id of the engine under call
  params,   \* the EncryptionParams / DecryptionParams of the caller
  alt,      \* a second EncryptionParams (paired encryptions), or None
  pc,       \* what the caller has done so far
  enc,      \* completion of encrypt(params)
  enc2,     \* completion of a further encrypt call
  dec,      \* completion of decrypt
  prim,     \* input of a primitive-level run
  pout      \* outputs of a primitive-level run

vars == <<engines, metadata, initialized, ciphers, frames, engine, params, alt, pc, enc, enc2, dec, prim, pout>>

NoPrim == [alg |-> "none"]
NoOut == [enc |-> None, dec |-> None, block |-> None]

---------------------------------------------------------------------------
(* Engine-level specification: a caller builds its parameters, calls        *)
(* encrypt (possibly twice) and decrypts the result, or calls decrypt on a  *)
(* ciphertext of its own.                                                   *)

Init ==
  /\ engines = PopulatedEngines /\ metadata = PopulatedMetadata
  /\ initialized = TRUE /\ ciphers = PopulatedCiphers /\ frames = <<>>
  /\ engine \in EngineIds
  /\ \/ /\ pc = "encrypting"
        /\ params \in GoodEncryptionParams(engine) \cup OddEncryptionParams(engine)
     \/ /\ pc = "decrypting"
        /\ params \in DecryptionParams(engine)
  /\ alt = None
  /\ enc = NoCall /\ enc2 = NoCall /\ dec = NoCall
  /\ prim = NoPrim /\ pout = NoOut

\* engine.encrypt(params)
Encrypt ==
  /\ pc = "encrypting"
  /\ \E random \in RandomIvs : enc' = EngineEncrypt(engine, params, random)
  /\ pc' = "encrypted"
  /\ UNCHANGED <<engines, metadata, initialized, ciphers, frames, engine, params, alt, enc2, dec, prim, pout>>

\* a second engine.encrypt(params) with the same parameters
EncryptAgain ==
  /\ pc = "encrypted"
  /\ \E random \in RandomIvs : enc2' = EngineEncrypt(engine, params, random)
  /\ pc' = "encrypted2"
  /\ UNCHANGED <<engines, metadata, initialized, ciphers, frames, engine, params, alt, enc, dec, prim, pout>>

\* the decryptParams of testCipher (part_002 107-114): the ciphertext is the
\* result of the encryption, everything else is passed again
DecryptParamsOf(p, result) == [p EXCEPT !.plaintext = None, !.ciphertext = Some(result)]

\* engine.decrypt of the result of a successful encryption
DecryptResult ==
  /\ pc = "encrypted"
  /\ ~enc.raised /\ TheVal(enc.op).success
  /\ dec' = EngineDecrypt(engine, DecryptParamsOf(params, TheVal(TheVal(enc.op).result)))
  /\ pc' = "roundtrip"
  /\ UNCHANGED <<engines, metadata, initialized, ciphers, frames, engine, params, alt, enc, enc2, prim, pout>>

\* engine.decrypt(params) on the caller's own ciphertext
Decrypt ==
  /\ pc = "decrypting"
  /\ dec' = EngineDecrypt(engine, params)
  /\ pc' = "decrypted"
  /\ UNCHANGED <<engines, metadata, initialized, ciphers, frames, engine, params, alt, enc, enc2, prim, pout>>

Next == Encrypt \/ EncryptAgain \/ DecryptResult \/ Decrypt

Spec == Init /\ [][Next]_vars

---------------------------------------------------------------------------
(* Paired encryptions: a caller encrypts, under one key, IV and mode, two   *)
(* plaintexts of the same number of whole blocks that differ in one byte.   *)

BlockTexts == {Text(BLOCK_SIZE * n, 0) : n \in 1..MaxBlocks}

\* 'a' and '~': characters of one UTF-8 byte that no text of family 0 holds
OtherChars == {97, 126}

InitDiff ==
  /\ engines = PopulatedEngines /\ metadata = PopulatedMetadata
  /\ initialized = TRUE /\ ciphers = PopulatedCiphers /\ frames = <<>>
  /\ engine \in FeistelIds
  /\ pc = "encrypting"
  /\ \E text \in BlockTexts, s \in 0..MaxSeed, m \in SupportedModes(engine) :
       \E pos \in 1..Len(text), c \in OtherChars :
         /\ params = WithIv(engine, Some(text), None, Some(PHex(s, 16)),
                            Some(PHex(s, BLOCK_SIZE)), Some(m), None)
         /\ alt = Some([params EXCEPT !.plaintext = Some([text EXCEPT ![pos] = c])])
  /\ enc = NoCall /\ enc2 = NoCall /\ dec = NoCall
  /\ prim = NoPrim /\ pout = NoOut

\* engine.encrypt(alt) after engine.encrypt(params)
EncryptAlt ==
  /\ pc = "encrypted"
  /\ alt # None
  /\ \E random \in RandomIvs : enc2' = EngineEncrypt(engine, TheVal(alt), random)
  /\ pc' = "paired"
  /\ UNCHANGED <<engines, metadata, initialized, ciphers, frames, engine, params, alt, enc, dec, prim, pout>>

NextDiff == Encrypt \/ EncryptAlt

SpecDiff == InitDiff /\ [][NextDiff]_vars

---------------------------------------------------------------------------
(* Primitive-level specification: one block function is applied to one      *)
(* input, and for the Feistel ciphers its inverse to the output.            *)

\* the key that is zero except for a final byte 1 (RFC 8439 A.1 vector 3)
LastByteOneKey == Array([i \in 1..32 |-> IF i = 32 THEN 1 ELSE 0])
\* the key 00 01 .. 1f and nonce of RFC 8439 section 2.3.2
CountingKey == Array([i \in 1..32 |-> i - 1])
Section232Nonce == <<0, 0, 0, 9, 0, 0, 0, \h4A, 0, 0, 0, 0>>

CoreCounters == {W(0, 0), W(0, 1), W(0, 2), W(65535, 65535)}

FeistelInputs ==
  {[alg |-> a, key |-> HexParse(PHex(k, 16)), block |-> HexParse(PHex(b, BLOCK_SIZE))] :
     a \in FeistelIds, k \in 0..MaxCoreSeed, b \in 0..MaxCoreSeed}

ChaChaInputs ==
  {[alg |-> "chacha20", key |-> k, nonce |-> n, counter |-> c] :
     k \in {PBytes(sd, 32) : sd \in 0..MaxCoreSeed} \cup {LastByteOneKey, CountingKey},
     n \in {PBytes(0, 12), PBytes(1, 12), Section232Nonce},
     c \in CoreCounters}

IdleParams == Params(None, None, None, None, None, None, None)

InitCore ==
  /\ engines = PopulatedEngines /\ metadata = PopulatedMetadata
  /\ initialized = TRUE /\ ciphers = PopulatedCiphers /\ frames = <<>>
  /\ prim \in FeistelInputs \cup ChaChaInputs
  /\ pout = NoOut
  /\ engine = prim.alg
  /\ params = IdleParams /\ alt = None
  /\ pc = "core"
  /\ enc = NoCall /\ enc2 = NoCall /\ dec = NoCall

\* encryptBlock(block, key) of the TEA / XTEA engine
EncryptBlockStep ==
  /\ prim.alg \in FeistelIds
  /\ pout.enc = None
  /\ pout' = [pout EXCEPT !.enc = Some(EncryptBlock(prim.alg, prim.block, prim.key))]
  /\ UNCHANGED <<engines, metadata, initialized, ciphers, frames, engine, params, alt, pc, enc, enc2, dec, prim>>

\* decryptBlock(encryptBlock(block, key), key)
DecryptBlockStep ==
  /\ prim.alg \in FeistelIds
  /\ pout.enc # None /\ pout.dec = None
  /\ pout' = [pout EXCEPT !.dec = Some(DecryptBlock(prim.alg, TheVal(pout.enc), prim.key))]
  /\ UNCHANGED <<engines, metadata, initialized, ciphers, frames, engine, params, alt, pc, enc, enc2, dec, prim>>

\* ChaCha20.chacha20Block(key, nonce, counter)
ChaChaBlockStep ==
  /\ prim.alg = "chacha20"
  /\ pout.block = None
  /\ pout' = [pout EXCEPT !.block = Some(chacha20Block(prim.key, prim.nonce, prim.counter))]
  /\ UNCHANGED <<engines, metadata, initialized, ciphers, frames, engine, params, alt, pc, enc, enc2, dec, prim>>

NextCore == EncryptBlockStep \/ DecryptBlockStep \/ ChaChaBlockStep

SpecCore == InitCore /\ [][NextCore]_vars

---------------------------------------------------------------------------
(* Reference algorithms, written from their published definitions.          *)

\* 0x9E3779B9
RefDelta == W(\h9E37, \h79B9)

\* TEA (Wheeler and Needham): 32 rounds; in round r (1..32) sum = r * delta,
\*   v0 += ((v1 << 4) + k0) ^ (v1 + sum) ^ ((v1 >> 5) + k1)
\*   v1 += ((v0 << 4) + k2) ^ (v0 + sum) ^ ((v0 >> 5) + k3)
RefTea(v, k) ==
  LET sum == MulSmall32(RefDelta, v.i)
      mix(x, ka, kb) ==
        LET p == Add32(Shl32(x, 4), ka)
            q == Add32(x, sum)
            r == Add32(Shr32(x, 5), kb)
        IN  Last(<<p, q, r, Xor32(Xor32(p, q), r)>>)
      ma == mix(v.b, k[1], k[2])
      a == Add32(v.a, ma)
      mb == mix(a, k[3], k[4])
      b == Add32(v.b, mb)
  IN  Last(<<sum, ma, a, mb, b, [a |-> a, b |-> b, i |-> v.i + 1]>>)

RefTeaEncrypt(block, key) ==
  LET v == Loop(RefTea, [a |-> block[1], b |-> block[2], i |-> 1], key, 32)
  IN  <<v.a, v.b>>

\* XTEA (Needham and Wheeler): 32 rounds; with sum = (r - 1) * delta,
\*   v0 += (((v1 << 4) ^ (v1 >> 5)) + v1) ^ (sum + k[sum & 3])
\*   sum += delta
\*   v1 += (((v0 << 4) ^ (v0 >> 5)) + v0) ^ (sum + k[(sum >> 11) & 3])
\* where the XOR of the two bracketed terms is computed first and the
\* result is then added to the half.
RefXtea(v, k) ==
  LET s0 == MulSmall32(RefDelta, v.i - 1)
      s1 == MulSmall32(RefDelta, v.i)
      f(x) == LET y == Xor32(Shl32(x, 4), Shr32(x, 5)) IN Last(<<y, Add32(y, x)>>)
      fb == f(v.b)
      ta == Xor32(fb, Add32(s0, k[(Lo(s0) % 4) + 1]))
      a == Add32(v.a, ta)
      fa == f(a)
      tb == Xor32(fa, Add32(s1, k[((Lo(s1) \div 2048) % 4) + 1]))
      b == Add32(v.b, tb)
  IN  Last(<<s0, s1, fb, ta, a, fa, tb, b, [a |-> a, b |-> b, i |-> v.i + 1]>>)

RefXteaEncrypt(block, key) ==
  LET v == Loop(RefXtea, [a |-> block[1], b |-> block[2], i |-> 1], key, 32)
  IN  <<v.a, v.b>>

\* RFC 8439: rotation of a 32-bit word by n bits to the left, 0 < n <= 16
RefRotl(w, n) ==
  IF n = 16 THEN W(Lo(w), Hi(w))
  ELSE LET m == 2 ^ (16 - n)
           p == 2 ^ n
       IN  W((Hi(w) % m) * p + (Lo(w) \div m), (Lo(w) % m) * p + (Hi(w) \div m))

\* RFC 8439 section 2.1, the quarter round on four words
RefQuarter(q) ==
  LET a1 == Add32(q[1], q[2])
      d1 == RefRotl(Xor32(q[4], a1), 16)
      c1 == Add32(q[3], d1)
      b1 == RefRotl(Xor32(q[2], c1), 12)
      a2 == Add32(a1, b1)
      d2 == RefRotl(Xor32(d1, a2), 8)
      c2 == Add32(c1, d2)
      b2 == RefRotl(Xor32(b1, c2), 7)
  IN  Last(<<a1, d1, c1, b1, a2, d2, c2, b2, <<a2, b2, c2, d2>>>>)

\* QUARTERROUND(x, y, z, w) on a state of 16 words, indices 0..15
RefQuarterOn(st, x, y, z, w) ==
  LET q == RefQuarter(<<st[x + 1], st[y + 1], st[z + 1], st[w + 1]>>)
  IN  Last(<<q, [st EXCEPT ![x + 1] = q[1], ![y + 1] = q[2],
                           ![z + 1] = q[3], ![w + 1] = q[4]]>>)

\* RFC 8439 section 2.3, inner_block: a column round and a diagonal round
RefInnerBlock(v, none) ==
  LET q == << <<0, 4, 8, 12>>, <<1, 5, 9, 13>>, <<2, 6, 10, 14>>, <<3, 7, 11, 15>>,
              <<0, 5, 10, 15>>, <<1, 6, 11, 12>>, <<2, 7, 8, 13>>, <<3, 4, 9, 14>> >>
      step(x, e) ==
        LET y == RefQuarterOn(x.st, q[x.i][1], q[x.i][2], q[x.i][3], q[x.i][4])
        IN  Last(<<y, [st |-> y, i |-> x.i + 1]>>)
      w == Loop(step, [st |-> v.st, i |-> 1], none, 8).st
  IN  Last(<<w, [st |-> w, i |-> v.i + 1]>>)

\* little-endian word number i (0-based) of a byte string
RefWordLE(bytes, i) ==
  W(bytes[4 * i + 3] + 256 * bytes[4 * i + 4], bytes[4 * i + 1] + 256 * bytes[4 * i + 2])

\* RFC 8439 section 2.3, chacha20_block(key, counter, nonce): the state is
\* the constants "expa" "nd 3" "2-by" "te k", the eight key words, the
\* block counter and the three nonce words; ten inner blocks; the initial
\* state is added and the words are serialized in little-endian order.
RefChaCha20Block(key, counter, nonce) ==
  LET init == <<W(\h6170, \h7865), W(\h3320, \h646E), W(\h7962, \h2D32), W(\h6B20, \h6574)>>
              \o [i \in 1..8 |-> RefWordLE(key, i - 1)]
              \o <<counter>>
              \o [i \in 1..3 |-> RefWordLE(nonce, i - 1)]
      work == Loop(RefInnerBlock, [st |-> init, i |-> 1], {}, 10).st
      sum == [i \in 1..16 |-> Add32(work[i], init[i])] \o <<>>
  IN  Last(<<init, work, sum,
             [j \in 1..64 |->
                LET w == sum[((j - 1) \div 4) + 1]
                    b == (j - 1) % 4
                IN  IF b = 0 THEN Lo(w) % 256 ELSE IF b = 1 THEN Lo(w) \div 256
                    ELSE IF b = 2 THEN Hi(w) % 256 ELSE Hi(w) \div 256] \o <<>> >>)

\* RFC 8439 appendix A.1, test vector 3: key zero except for the last byte
\* 1, zero nonce, block counter 1
RfcA1Vector3 ==
  <<
    \h3A, \hEB, \h52, \h24, \hEC, \hF8, \h49, \h92, \h9B, \h9D, \h82, \h8D, \hB1, \hCE, \hD4, \hDD,
    \h83, \h20, \h25, \hE8, \h01, \h8B, \h81, \h60, \hB8, \h22, \h84, \hF3, \hC9, \h49, \hAA, \h5A,
    \h8E, \hCA, \h00, \hBB, \hB4, \hA7, \h3B, \hDA, \hD1, \h92, \hB5, \hC4, \h2F, \h73, \hF2, \hFD,
    \h4E, \h27, \h36, \h44, \hC8, \hB3, \h61, \h25, \hA6, \h4A, \hDD, \hEB, \h00, \h6C, \h13, \hA0
  >>

\* RFC 8439 section 2.3.2: key 00..1f, nonce 00 00 00 09 00 00 00 4a 00 00 00 00,
\* block counter 1
RfcSection232Block ==
  <<
    \h10, \hF1, \hE7, \hE4, \hD1, \h3B, \h59, \h15, \h50, \h0F, \hDD, \h1F, \hA3, \h20, \h71, \hC4,
    \hC7, \hD1, \hF4, \hC7, \h33, \hC0, \h68, \h03, \h04, \h22, \hAA, \h9A, \hC3, \hD4, \h6C, \h4E,
    \hD2, \h82, \h64, \h46, \h07, \h9F, \hAA, \h09, \h14, \hC2, \hD7, \h05, \hD9, \h8B, \h02, \hA2,
    \hB5, \h12, \h9C, \hD1, \hDE, \h16, \h4E, \hB9, \hCB, \hD0, \h83, \hE8, \hA2, \h50, \h3C, \h4E
  >>

\* TEA of the zero block under the zero key: 41EA3A0A 94BAA940
TeaZeroVector == <<W(\h41EA, \h3A0A), W(\h94BA, \hA940)>>

\* XTEA of the zero block under the zero key: DEE9D4D8 F7131ED9
XteaZeroVector == <<W(\hDEE9, \hD4D8), W(\hF713, \h1ED9)>>

---------------------------------------------------------------------------
(* Properties of the block functions (SpecCore)                             *)

ZeroBlock == <<Zero32, Zero32>>
ZeroKey == <<Zero32, Zero32, Zero32, Zero32>>

\* C2: for TEA, decryptBlock(encryptBlock(b, k), k) = b for every 64-bit
\* block b and 128-bit key k.
TeaBlockInverse ==
  (prim.alg = "tea" /\ pout.dec # None) => TheVal(pout.dec).words = prim.block.words

\* a non-zero block was encrypted to something else and recovered
TeaBlockRecovered ==
  /\ prim.alg = "tea" /\ pout.dec # None
  /\ prim.block.words # ZeroBlock
  /\ TheVal(pout.enc).words # prim.block.words
  /\ TheVal(pout.dec).words = prim.block.words

\* C3: for XTEA, decryptBlock(encryptBlock(b, k), k) = b for every 64-bit
\* block b and 128-bit key k.
XteaBlockInverse ==
  (prim.alg = "xtea" /\ pout.dec # None) => TheVal(pout.dec).words = prim.block.words

\* C4: ChaCha20.chacha20Block(key, nonce, counter) is the RFC 8439 block
\* function, and reproduces the RFC's published blocks for the key that is
\* zero except for a final byte 1 and for the key 00..1f, at counter 1.
ChaChaMatchesRfc ==
  (prim.alg = "chacha20" /\ pout.block # None) =>
    /\ TheVal(pout.block) = RefChaCha20Block(prim.key, prim.counter, prim.nonce)
    /\ (prim.key = LastByteOneKey /\ prim.nonce = PBytes(0, 12) /\ prim.counter = W(0, 1))
         => TheVal(pout.block) = RfcA1Vector3
    /\ (prim.key = CountingKey /\ prim.nonce = Section232Nonce /\ prim.counter = W(0, 1))
         => TheVal(pout.block) = RfcSection232Block

\* the block of RFC 8439 A.1 vector 3 has been computed
ChaChaVectorComputed ==
  /\ prim.alg = "chacha20" /\ pout.block # None
  /\ prim.key = LastByteOneKey /\ prim.nonce = PBytes(0, 12) /\ prim.counter = W(0, 1)
  /\ TheVal(pout.block) = RfcA1Vector3

\* C5: TEA encryptBlock equals the reference TEA function (32 rounds, delta
\* 0x9E3779B9, sum advanced before the two half-updates), and the zero
\* block under the zero key encrypts to 41EA3A0A 94BAA940.
TeaMatchesReference ==
  (prim.alg = "tea" /\ pout.enc # None) =>
    /\ TheVal(pout.enc).words = RefTeaEncrypt(prim.block.words, prim.key.words)
    /\ (prim.block.words = ZeroBlock /\ prim.key.words = ZeroKey)
         => TheVal(pout.enc).words = TeaZeroVector

\* the zero block was encrypted under the zero key
TeaZeroVectorComputed ==
  /\ prim.alg = "tea" /\ pout.enc # None
  /\ prim.block.words = ZeroBlock /\ prim.key.words = ZeroKey
  /\ TheVal(pout.enc).words = TeaZeroVector

\* C6: XTEA encryptBlock equals the reference XTEA function (the XOR of the
\* two bracketed terms is computed first and then added to the half), and
\* the zero block under the zero key encrypts to DEE9D4D8 F7131ED9.
XteaMatchesReference ==
  (prim.alg = "xtea" /\ pout.enc # None) =>
    /\ TheVal(pout.enc).words = RefXteaEncrypt(prim.block.words, prim.key.words)
    /\ (prim.block.words = ZeroBlock /\ prim.key.words = ZeroKey)
         => TheVal(pout.enc).words = XteaZeroVector

---------------------------------------------------------------------------
(* Properties of the engines (Spec)                                         *)

\* a text of hexadecimal digits that spells one of the given numbers of bytes
HexOfSize(o, sizes) ==
  /\ o # None
  /\ \A i \in 1..Len(TheVal(o)) : HexDigitVal(TheVal(o)[i]) >= 0
  /\ \E n \in sizes : Len(TheVal(o)) = 2 * n

\* the call is one the round-trip property speaks of: a plaintext of one of
\* the test lengths, a key of a required size, an IV / nonce of the required
\* size, a supported (or defaulted) mode and variant
WellFormedCall(id, p) ==
  /\ p.plaintext # None
  /\ Len(Utf8Encode(TheVal(p.plaintext))) \in TestLengths
  /\ HexOfSize(p.key, RequiredKeySizes(id))
  /\ HexOfSize(IvOf(id, p), {RequiredIvSize(id)})
  /\ p.mode \in {None} \cup {Some(m) : m \in SupportedModes(id)}
  /\ p.variant \in {None} \cup {Some(v) : v \in SupportedVariants(id)}

Succeeded(c) == ~c.raised /\ c.op # None /\ TheVal(c.op).success
Failed(c) ==
  /\ ~c.raised /\ c.op # None
  /\ ~TheVal(c.op).success /\ TheVal(c.op).result = None

\* C1: for every engine, supported mode and variant, valid key and IV/nonce
\* and plaintext of 0, 1, 8, 63, 64 or 65 UTF-8 bytes, encrypt succeeds and
\* decrypt of its result under the same parameters succeeds and returns the
\* original plaintext.
RoundTrip ==
  WellFormedCall(engine, params) =>
    /\ pc \in {"encrypted", "encrypted2", "roundtrip"} => Succeeded(enc)
    /\ pc = "roundtrip" =>
          /\ Succeeded(dec)
          /\ TheVal(dec.op).result = params.plaintext

\* C7: when the caller supplies the key and the IV/nonce, two encrypt calls
\* with identical parameters return the identical result.
Deterministic ==
  (pc = "encrypted2" /\ Truthy(params.key) /\ Truthy(IvOf(engine, params)))
    => enc2 = enc

\* TEA in CBC mode, 16-zero-byte key, 8-zero-byte IV, plaintext "ABCDEFGH",
\* encrypted twice with the same ciphertext
SameCiphertextTwice ==
  /\ pc = "encrypted2" /\ engine = "tea"
  /\ params = WithIv("tea", Some(Text(8, 0)), None, Some(PHex(0, 16)),
                     Some(PHex(0, 8)), Some("CBC"), None)
  /\ Succeeded(enc) /\ Succeeded(enc2)
  /\ TheVal(enc2.op).result = TheVal(enc.op).result

\* the shape of a CryptoOperation: a success with a result and no error, or
\* a failure with an error and neither result nor metadata
WellShaped(c) ==
  /\ ~c.raised
  /\ c.op # None =>
        LET r == TheVal(c.op)
        IN  \/ r.success /\ r.result # None /\ r.error = None
            \/ ~r.success /\ r.error # None /\ r.result = None /\ r.metadata = None

\* C9: every encrypt or decrypt call, whatever its parameters, completes by
\* returning a result and never raises; the result is a success with a
\* result string and no error, or a failure with an error message and
\* neither result nor metadata.
NeverRaises ==
  /\ WellShaped(enc) /\ WellShaped(enc2) /\ WellShaped(dec)
  /\ pc \in {"encrypted", "encrypted2", "roundtrip"} => enc.op # None
  /\ pc = "encrypted2" => enc2.op # None
  /\ pc \in {"roundtrip", "decrypted"} => dec.op # None

\* a fault thrown inside decrypt came back as a failure result
FaultReturnedAsFailure ==
  /\ pc = "decrypted"
  /\ dec = Completed(Failure("Malformed UTF-8 data"))

\* the key is absent or its length is none of the required sizes
KeyLengthWrong(id, p) ==
  p.key = None \/ \A n \in RequiredKeySizes(id) : Len(TheVal(p.key)) # 2 * n

\* C10: encrypt and decrypt return a failure, and no ciphertext or
\* plaintext, whenever the key's byte length is not one of the sizes the
\* algorithm requires (16 for TEA and XTEA, 16 or 32 for Salsa20, 32 for
\* ChaCha20).
WrongKeyLengthFails ==
  KeyLengthWrong(engine, params) =>
    /\ pc \in {"encrypted", "encrypted2"} => Failed(enc)
    /\ pc = "encrypted2" => Failed(enc2)
    /\ pc = "decrypted" => Failed(dec)

\* a key one byte longer than required was refused by encrypt, all else
\* being in order
LongKeyRefused ==
  /\ pc = "encrypted" /\ engine = "tea"
  /\ params.key = Some(PHex(1, 17))
  /\ params.plaintext = Some(Text(5, 0))
  /\ params.mode = Some("ECB")
  /\ enc = Completed(Failure("Invalid TEA key. Must be exactly 16 bytes (128 bits)"))

\* chained mode is selected, explicitly or by the default of the mode
CbcSelected(p) == p.mode \in {None, Some("CBC")}

\* C11: for TEA and XTEA, encrypt and decrypt called in CBC mode (selected
\* explicitly or by default) without an IV return a failure; neither
\* proceeds without an IV of the caller.
MissingIvFails ==
  (engine \in FeistelIds /\ CbcSelected(params) /\ params.iv = None) =>
    /\ pc \in {"encrypted", "encrypted2"} => Failed(enc)
    /\ pc = "encrypted2" => Failed(enc2)
    /\ pc = "decrypted" => Failed(dec)

\* C12: for TEA and XTEA in CBC mode, encrypt and decrypt return a failure
\* when the IV supplied is not exactly 8 bytes long.
WrongIvLengthFails ==
  (/\ engine \in FeistelIds /\ CbcSelected(params)
   /\ params.iv # None /\ Len(TheVal(params.iv)) # 2 * RequiredIvSize(engine)) =>
    /\ pc \in {"encrypted", "encrypted2"} => Failed(enc)
    /\ pc = "encrypted2" => Failed(enc2)
    /\ pc = "decrypted" => Failed(dec)

StreamIds == {"salsa20", "chacha20"}

\* the nonce is absent or its length is not the fixed size of the algorithm
NonceLengthWrong(id, p) ==
  p.nonce = None \/ Len(TheVal(p.nonce)) # 2 * RequiredIvSize(id)

\* C13: for Salsa20 and ChaCha20, encrypt and decrypt return a failure, and
\* nothing computed with the keystream, when the nonce is absent or its byte
\* length is not the fixed size (8 for Salsa20, 12 for ChaCha20).
WrongNonceFails ==
  (engine \in StreamIds /\ NonceLengthWrong(engine, params)) =>
    /\ pc \in {"encrypted", "encrypted2"} => Failed(enc)
    /\ pc = "encrypted2" => Failed(enc2)
    /\ pc = "decrypted" => Failed(dec)

\* a nonce of 12 bytes was refused by Salsa20 encrypt, plaintext and key
\* being in order
LongNonceRefused ==
  /\ pc = "encrypted" /\ engine = "salsa20"
  /\ params.plaintext = Some(Text(5, 0))
  /\ HexOfSize(params.key, RequiredKeySizes("salsa20"))
  /\ params.nonce = Some(PHex(1, 12))
  /\ enc = Completed(Failure("Invalid Salsa20 nonce. Must be 8 bytes"))

\* C14: for TEA and XTEA, encrypt and decrypt called with a mode other than
\* ECB or CBC return a failure and no transformed block.
UnknownModeFails ==
  (engine \in FeistelIds /\ params.mode \notin {None, Some("ECB"), Some("CBC")}) =>
    /\ pc \in {"encrypted", "encrypted2"} => Failed(enc)
    /\ pc = "encrypted2" => Failed(enc2)
    /\ pc = "decrypted" => Failed(dec)

\* mode CTR was refused by TEA encrypt, plaintext, key and IV being in order
CtrModeRefused ==
  /\ pc = "encrypted" /\ engine = "tea"
  /\ params = WithIv("tea", Some(Text(5, 0)), None, Some(PHex(1, 16)),
                     Some(PHex(1, 8)), Some("CTR"), None)
  /\ enc = Completed(Failure("Mode not implemented for TEA"))

\* the parameters of the decrypt call of the run
DecryptCall ==
  IF pc = "roundtrip" THEN DecryptParamsOf(params, TheVal(TheVal(enc.op).result))
  ELSE params

\* the bytes a decrypt call that passed its checks recovers, before they
\* are read as text
RecoveredBytes(id, p) ==
  CASE id \in FeistelIds ->
         BytesOfWordArray(
           IF FeistelMode(p) = "ECB"
           THEN decryptECB(id, HexParse(TheVal(p.ciphertext)), HexParse(TheVal(p.key)))
           ELSE decryptCBC(id, HexParse(TheVal(p.ciphertext)), HexParse(TheVal(p.key)),
                           HexParse(TheVal(p.iv))))
    [] id = "salsa20" ->
         BytesOfWordArray(Salsa20Crypt(HexParse(TheVal(p.ciphertext)),
                                       HexParse(TheVal(p.key)),
                                       HexParse(TheVal(p.nonce)), Salsa20Variant(p)))
    [] id = "chacha20" ->
         ChaCha20Encrypt(hexToUint8Array(TheVal(p.ciphertext)),
                         hexToUint8Array(TheVal(p.key)),
                         hexToUint8Array(TheVal(p.nonce)))

\* C15: for each engine, a decrypt that returns success returns the text
\* whose UTF-8 encoding is the recovered bytes; bytes that are no valid UTF-8
\* text give a failure, never a text with characters put in their place.
DecodedFaithfully ==
  (pc \in {"roundtrip", "decrypted"} /\ Succeeded(dec)) =>
    Utf8Encode(TheVal(TheVal(dec.op).result)) = RecoveredBytes(engine, DecryptCall)

\* C16: for Salsa20 and ChaCha20, once the key and the nonce pass
\* validation, encrypt returns success for every plaintext, the empty
\* plaintext included.
StreamEncryptSucceeds ==
  (/\ engine \in StreamIds /\ pc \in {"encrypted", "encrypted2", "roundtrip"}
   /\ params.plaintext # None
   /\ HexOfSize(params.key, RequiredKeySizes(engine))
   /\ HexOfSize(params.nonce, {RequiredIvSize(engine)})) => Succeeded(enc)

\* NUL characters
Nuls(n) == Array([i \in 1..n |-> 0])

---------------------------------------------------------------------------
(* Diffusion of the block modes (SpecDiff)                                  *)

\* block b (1-based) of a ciphertext in hexadecimal
CipherBlock(hex, b) == SubSeq(hex, 2 * BLOCK_SIZE * (b - 1) + 1, 2 * BLOCK_SIZE * b)

\* the block that holds the byte in which the two plaintexts differ
ChangedBlock ==
  LET p1 == TheVal(params.plaintext)
      p2 == TheVal(TheVal(alt).plaintext)
  IN  (((CHOOSE i \in 1..Len(p1) : p1[i] # p2[i]) - 1) \div BLOCK_SIZE) + 1

\* C8: for TEA and XTEA under a fixed key and IV, two plaintexts of the same
\* number of whole blocks that differ in one byte, in block j, give
\* ciphertexts that in CBC mode are equal before block j and differ in block
\* j and every later block, and in ECB mode differ in block j only.
DiffusionProfile ==
  pc = "paired" =>
    /\ Succeeded(enc) /\ Succeeded(enc2)
    /\ LET n == Len(TheVal(params.plaintext)) \div BLOCK_SIZE
           c1 == TheVal(TheVal(enc.op).result)
           c2 == TheVal(TheVal(enc2.op).result)
       IN  /\ Len(c1) = 2 * BLOCK_SIZE * n /\ Len(c2) = 2 * BLOCK_SIZE * n
           /\ \A b \in 1..n :
                (CipherBlock(c1, b) # CipherBlock(c2, b))
                  <=> (IF params.mode = Some("CBC") THEN b >= ChangedBlock
                       ELSE b = ChangedBlock)

\* a change in the second of three blocks in CBC mode left the first block
\* alone and changed the second and the third
ChangeCarriedForward ==
  /\ pc = "paired" /\ params.mode = Some("CBC")
  /\ Len(TheVal(params.plaintext)) = 3 * BLOCK_SIZE
  /\ ChangedBlock = 2
  /\ Succeeded(enc) /\ Succeeded(enc2)
  /\ LET c1 == TheVal(TheVal(enc.op).result)
         c2 == TheVal(TheVal(enc2.op).result)
     IN  /\ CipherBlock(c1, 1) = CipherBlock(c2, 1)
         /\ CipherBlock(c1, 2) # CipherBlock(c2, 2)
         /\ CipherBlock(c1, 3) # CipherBlock(c2, 3)

---------------------------------------------------------------------------
(* Key material: the generators and validators of the engines, and the key *)
(* sizes their metadata declares (SpecKeys).                                *)

MaxGenSeed == 3       \* patterns 0..MaxGenSeed the random source may return

\* CryptoJS.lib.WordArray.random(nBytes)
RandomWordArray(nBytes, seed) ==
  WordArray(WordsOfBytes(PBytes(seed, nBytes)), 2 * nBytes)

\* getRandomBytes(length) and generateRandomHex(byteLength)
\* (crypto-utils.ts 8-31)
getRandomBytes(length, seed) == PBytes(seed, length)
generateRandomHex(byteLength, seed) == HexOfBytes(getRandomBytes(byteLength, seed))

\* TeaEngine.generateKey / XteaEngine.generateKey: the keySize argument is
\* not read
FeistelGenerateKey(keySize, seed) == HexStringify(RandomWordArray(16, seed))

\* TeaEngine.generateIV(ivSize = 8) / XteaEngine.generateIV
FeistelGenerateIV(ivSize, seed) ==
  HexStringify(RandomWordArray(IF ivSize = None THEN 8 ELSE TheVal(ivSize), seed))

\* TeaEngine.validateIV / XteaEngine.validateIV
FeistelValidateIV(iv) ==
  IF iv = None THEN FALSE ELSE HexParse(TheVal(iv)).sig2 = 2 * 8

\* variant: the requested number of bits is taken as it is
Salsa20GenerateKeyAsRequested(keySize, seed) ==
  HexStringify(RandomWordArray((IF keySize = None THEN 256 ELSE TheVal(keySize)) \div 8,
                               seed))

\* Salsa20Engine.generateKey(keySize = 256): a size other than 128 and 256
\* is replaced by 256
Salsa20GenerateKey(keySize, seed) ==
  HexStringify(RandomWordArray(
    (IF keySize \in {Some(128), Some(256)} THEN TheVal(keySize) ELSE 256) \div 8,
    seed))

\* Salsa20Engine.generateNonce(), generateIV(ivSize) and validateIV(iv)
Salsa20GenerateNonce(seed) == HexStringify(RandomWordArray(8, seed))
Salsa20GenerateIV(ivSize, seed) == Salsa20GenerateNonce(seed)
Salsa20ValidateIV(iv) == Salsa20ValidateNonce(iv)

\* ChaCha20Engine.generateKey() and generateNonce()
ChaCha20GenerateKey(seed) == generateRandomHex(32, seed)
ChaCha20GenerateNonce(seed) == generateRandomHex(12, seed)

\* engine.generateKey(keySize)
EngineGenerateKey(id, keySize, seed) ==
  CASE id \in FeistelIds -> FeistelGenerateKey(keySize, seed)
    [] id = "salsa20" -> Salsa20GenerateKey(keySize, seed)
    [] id = "chacha20" -> ChaCha20GenerateKey(seed)

\* engine.generateIV(ivSize) (TEA, XTEA, Salsa20)
EngineGenerateIV(id, ivSize, seed) ==
  IF id \in FeistelIds THEN FeistelGenerateIV(ivSize, seed)
  ELSE Salsa20GenerateIV(ivSize, seed)

\* engine.generateNonce() (Salsa20, ChaCha20)
EngineGenerateNonce(id, seed) ==
  IF id = "salsa20" THEN Salsa20GenerateNonce(seed) ELSE ChaCha20GenerateNonce(seed)

\* engine.validateKey(key)
EngineValidateKey(id, key) ==
  CASE id \in FeistelIds -> FeistelValidateKey(key)
    [] id = "salsa20" -> Salsa20ValidateKey(key)
    [] id = "chacha20" -> ChaCha20ValidateKey(key)

\* engine.validateIV(iv) (TEA, XTEA, Salsa20)
EngineValidateIV(id, iv) ==
  IF id \in FeistelIds THEN FeistelValidateIV(iv) ELSE Salsa20ValidateIV(iv)

\* engine.validateNonce(nonce) (Salsa20, ChaCha20)
EngineValidateNonce(id, nonce) ==
  IF id = "salsa20" THEN Salsa20ValidateNonce(nonce) ELSE ChaCha20ValidateNonce(nonce)

\* metadata.keyRequirements.keySizes
MetadataKeySizes(id) ==
  CASE id \in FeistelIds -> {128}
    [] id = "salsa20" -> {128, 256}
    [] id = "chacha20" -> {32}

\* metadata.keyRequirements.maxKeySize
MetadataMaxKeySize(id) ==
  CASE id \in FeistelIds -> 128
    [] id = "salsa20" -> 256
    [] id = "chacha20" -> 32

\* metadata.variants: id |-> keySize
MetadataVariants(id) ==
  CASE id = "tea" -> [v \in {"tea"} |-> 128]
    [] id = "xtea" -> [v \in {"xtea"} |-> 128]
    [] id = "salsa20" -> [v \in {"salsa20/8", "salsa20/12", "salsa20/20"} |-> 256]
    [] id = "chacha20" -> [v \in {"chacha20"} |-> 32]

\* validateInputs of the Sandbox (Sandbox.tsx 184-185):
\* variant?.keySize || cipherMetadata.keyRequirements.maxKeySize
expectedKeyBytes(id, selectedVariant) ==
  IF selectedVariant \in DOMAIN MetadataVariants(id)
       /\ MetadataVariants(id)[selectedVariant] # 0
  THEN MetadataVariants(id)[selectedVariant]
  ELSE MetadataMaxKeySize(id)

\* the key sizes an engine declares: the entries of keySizes and the sizes
\* the Sandbox asks for
DeclaredKeySizes(id) ==
  MetadataKeySizes(id)
  \cup {expectedKeyBytes(id, v) : v \in DOMAIN MetadataVariants(id) \cup {"none"}}

\* the same digits with the letters in upper case
UpperHex(str) == Array([i \in 1..Len(str) |->
                          IF str[i] >= 97 /\ str[i] <= 102 THEN str[i] - 32 ELSE str[i]])

\* the keys handed to validateKey: well-formed and malformed ones, keys of
\* every declared size, and keys in upper-case digits
KeyCandidates(id) ==
  ValidKeys(id) \cup OddKeys(id)
  \cup {Some(PHex(s, n)) : s \in 0..MaxSeed, n \in DeclaredKeySizes(id)}
  \cup {Some(UpperHex(PHex(1, n))) : n \in RequiredKeySizes(id)}

KeySizeArguments == {None} \cup {Some(n) : n \in {0, 64, 128, 192, 256, 512}}
IvSizeArguments == {None, Some(4), Some(16)}

KeyCall(id, op, size, key) == [alg |-> id, op |-> op, size |-> size, key |-> key]

KeyCalls(id) ==
  {KeyCall(id, "generateKey", sz, None) : sz \in KeySizeArguments}
  \cup {KeyCall(id, "validateKey", None, k) : k \in KeyCandidates(id)}
  \cup (IF id # "chacha20"
        THEN {KeyCall(id, "generateIV", sz, None) : sz \in IvSizeArguments} ELSE {})
  \cup (IF id \in StreamIds THEN {KeyCall(id, "generateNonce", None, None)} ELSE {})

NoKeyOut == [hex |-> None, valid |-> None]

InitKeys ==
  /\ engines = PopulatedEngines /\ metadata = PopulatedMetadata
  /\ initialized = TRUE /\ ciphers = PopulatedCiphers /\ frames = <<>>
  /\ engine \in EngineIds
  /\ prim \in KeyCalls(engine)
  /\ pout = NoKeyOut
  /\ params = IdleParams /\ alt = None
  /\ pc = "keys"
  /\ enc = NoCall /\ enc2 = NoCall /\ dec = NoCall

\* engine.generateKey(keySize)
GenerateKey ==
  /\ pc = "keys" /\ prim.op = "generateKey" /\ pout.hex = None
  /\ \E seed \in 0..MaxGenSeed :
       pout' = [pout EXCEPT !.hex = Some(EngineGenerateKey(engine, prim.size, seed))]
  /\ UNCHANGED <<engines, metadata, initialized, ciphers, frames, engine, params, alt, pc, enc, enc2, dec, prim>>

\* engine.generateIV(ivSize)
GenerateIV ==
  /\ pc = "keys" /\ prim.op = "generateIV" /\ pout.hex = None
  /\ \E seed \in 0..MaxGenSeed :
       pout' = [pout EXCEPT !.hex = Some(EngineGenerateIV(engine, prim.size, seed))]
  /\ UNCHANGED <<engines, metadata, initialized, ciphers, frames, engine, params, alt, pc, enc, enc2, dec, prim>>

\* engine.generateNonce()
GenerateNonce ==
  /\ pc = "keys" /\ prim.op = "generateNonce" /\ pout.hex = None
  /\ \E seed \in 0..MaxGenSeed :
       pout' = [pout EXCEPT !.hex = Some(EngineGenerateNonce(engine, seed))]
  /\ UNCHANGED <<engines, metadata, initialized, ciphers, frames, engine, params, alt, pc, enc, enc2, dec, prim>>

\* engine.validateKey on the caller's key or on the generated one
ValidateKey ==
  /\ pc = "keys" /\ pout.valid = None
  /\ \/ /\ prim.op = "validateKey"
        /\ pout' = [pout EXCEPT !.valid = Some(EngineValidateKey(engine, prim.key))]
     \/ /\ prim.op = "generateKey" /\ pout.hex # None
        /\ pout' = [pout EXCEPT !.valid = Some(EngineValidateKey(engine, pout.hex))]
  /\ UNCHANGED <<engines, metadata, initialized, ciphers, frames, engine, params, alt, pc, enc, enc2, dec, prim>>

\* engine.validateIV on the generated IV
ValidateIV ==
  /\ pc = "keys" /\ pout.valid = None
  /\ prim.op = "generateIV" /\ pout.hex # None
  /\ pout' = [pout EXCEPT !.valid = Some(EngineValidateIV(engine, pout.hex))]
  /\ UNCHANGED <<engines, metadata, initialized, ciphers, frames, engine, params, alt, pc, enc, enc2, dec, prim>>

\* engine.validateNonce on the generated nonce
ValidateNonce ==
  /\ pc = "keys" /\ pout.valid = None
  /\ prim.op = "generateNonce" /\ pout.hex # None
  /\ pout' = [pout EXCEPT !.valid = Some(EngineValidateNonce(engine, pout.hex))]
  /\ UNCHANGED <<engines, metadata, initialized, ciphers, frames, engine, params, alt, pc, enc, enc2, dec, prim>>

NextKeys ==
  GenerateKey \/ GenerateIV \/ GenerateNonce \/ ValidateKey \/ ValidateIV \/ ValidateNonce

SpecKeys == InitKeys /\ [][NextKeys]_vars

\* C17: for each engine and any requested size, generateKey returns a hex
\* string the engine's validateKey accepts; generateIV() and generateNonce()
\* without argument return hex strings of exactly the required size (8 bytes,
\* 12 for the ChaCha20 nonce) that validateIV / validateNonce accept.
GeneratedIsAccepted ==
  (pc = "keys" /\ pout.hex # None) =>
    /\ prim.op = "generateKey" =>
         /\ isValidHex(pout.hex)
         /\ pout.valid # None => TheVal(pout.valid)
    /\ (prim.op \in {"generateIV", "generateNonce"} /\ prim.size = None) =>
         /\ isValidHex(pout.hex)
         /\ Len(TheVal(pout.hex)) = 2 * RequiredIvSize(engine)
         /\ pout.valid # None => TheVal(pout.valid)

\* Salsa20 was asked for a key of 64 bits, returned one of 32 bytes, and
\* validateKey accepted it
OddSizeKeyAccepted ==
  /\ engine = "salsa20" /\ prim.op = "generateKey" /\ prim.size = Some(64)
  /\ pout.hex # None /\ Len(TheVal(pout.hex)) = 2 * 32
  /\ pout.valid = Some(TRUE)

\* C18: for each engine, every entry of metadata.keyRequirements.keySizes
\* and every variant's keySize is a key length in bytes the engine accepts:
\* validateKey accepts a hex key of exactly that many bytes, so a key of the
\* size the Sandbox asks for is not rejected for its length.
DeclaredSizeAccepted ==
  (/\ pc = "keys" /\ prim.op = "validateKey" /\ pout.valid # None
   /\ isValidHex(prim.key)
   /\ (Len(TheVal(prim.key)) \div 2) \in DeclaredKeySizes(engine))
    => TheVal(pout.valid)

\* C19: for each engine, validateKey(key) is true if and only if key
\* consists solely of hexadecimal digits and encodes exactly one of the
\* required byte lengths; a string of the right length with a character that
\* is not a hexadecimal digit is rejected.
ValidateKeyExact ==
  (pc = "keys" /\ prim.op = "validateKey" /\ pout.valid # None) =>
    (TheVal(pout.valid)
       <=> /\ isValidHex(prim.key)
           /\ (Len(TheVal(prim.key)) \div 2) \in RequiredKeySizes(engine))

---------------------------------------------------------------------------
(* The registry under registration (SpecRegistry): engine objects are       *)
(* registered in any order, any number of times, into the empty Maps.       *)

InitRegistry ==
  /\ engines = <<>> /\ metadata = <<>>
  /\ initialized = FALSE /\ ciphers = <<>> /\ frames = <<>>
  /\ engine = "none"
  /\ params = IdleParams /\ alt = None
  /\ pc = "registry"
  /\ enc = NoCall /\ enc2 = NoCall /\ dec = NoCall
  /\ prim = NoPrim /\ pout = NoOut

\* CipherRegistry.register(engine); prim keeps the engine that was passed
\* and pc whether its id was present
Register ==
  /\ pc \in {"registry", "registered", "replaced"}
  /\ \E e \in EngineInstances :
       /\ engines' = RegisterEngine(engines, e)
       /\ metadata' = RegisterMetadata(metadata, e)
       /\ prim' = e
       /\ engine' = e.metadata.id
       /\ pc' = IF MapHas(engines, e.metadata.id) THEN "replaced" ELSE "registered"
  /\ UNCHANGED <<initialized, ciphers, frames, params, alt, enc, enc2, dec, pout>>

NextRegistry == Register

SpecRegistry == InitRegistry /\ [][NextRegistry]_vars

\* what a registration of the engine passed leaves behind
RegisteredLast(e, id) ==
  /\ MapGet(engines', id) = Some(e)
  /\ MapGet(metadata', id) = Some(e.metadata)
  /\ \A other \in EngineIds \ {id} :
       /\ MapGet(engines', other) = MapGet(engines, other)
       /\ MapGet(metadata', other) = MapGet(metadata, other)
  /\ MapHas(engines, id) =>
       /\ MapKeys(engines') = MapKeys(engines)
       /\ MapKeys(metadata') = MapKeys(metadata)

\* C20: register(engine) stores the engine and its metadata under
\* engine.metadata.id; when the id is already present no error is raised,
\* both the stored engine and the stored metadata are replaced (the last
\* registration wins), and every other entry and the number of registered
\* ids stay as they were.
RegisterLastWins ==
  [][pc' \in {"registered", "replaced"} /\ RegisteredLast(prim', prim'.metadata.id)]_vars

\* a second TEA engine was registered over the first one, among four ids
TeaEngineReplaced ==
  /\ pc = "replaced" /\ prim = EngineInstance("tea", 2)
  /\ MapGet(engines, "tea") = Some(EngineInstance("tea", 2))
  /\ MapGet(metadata, "tea") = Some(EngineInstance("tea", 2).metadata)
  /\ Len(engines) = 4 /\ Len(metadata) = 4

---------------------------------------------------------------------------
(* The registry in use (SpecLookup): the class is loaded, its static block  *)
(* registers the engines and builds the search index, and from then on      *)
(* callers look engines up, search, and may register further engines.       *)

\* CipherRegistry.getEngine(id), getMetadata(id): None is undefined
getEngine(id) == MapGet(engines, id)
getMetadata(id) == MapGet(metadata, id)

\* CipherRegistry.getAllMetadata(), exists(id), getAllIds()
getAllMetadata == MapValues(metadata)
exists(id) == MapHas(engines, id)
getAllIds == MapKeys(engines)

\* array.filter(cipher => cipher.category === category)
RECURSIVE FilterCategory(_, _, _)
FilterCategory(array, category, k) ==
  IF k > Len(array) THEN <<>>
  ELSE (IF array[k].category = category THEN <<array[k]>> ELSE <<>>)
         \o FilterCategory(array, category, k + 1)

\* CipherRegistry.getByCategory(category)
getByCategory(category) == FilterCategory(getAllMetadata, category, 1)

\* variant: the index is built again on every call
IndexAfterInitializeSearchAlways(init, index, cipherData) == SearchInitialize(cipherData)

\* CipherRegistry.initializeSearch(): the index it leaves, given the flag,
\* the index and getAllMetadata()
IndexAfterInitializeSearch(init, index, cipherData) ==
  IF ~init THEN SearchInitialize(cipherData) ELSE index

\* query.trim() of a text of blanks
IsBlank(query) == \A i \in 1..Len(query) : query[i] = 32

\* the queries of the callers: the empty text and a text of blanks
BlankQueries == {<<>>, <<32, 32>>}

\* the identifiers and categories the callers ask for
LookupIds == EngineIds \cup {"aes", "rsa", "kyber", "unknown", "TEA"}
LookupCategories == {"symmetric", "asymmetric", "post-quantum", "classical"}

Lookup(op, arg, result) == [op |-> op, arg |-> arg, result |-> result]

\* the caller's last lookup was op / a step that is a lookup
LastLookup(op) == "op" \in DOMAIN pout /\ pout.op = op
LookupStep ==
  /\ "op" \in DOMAIN pout'
  /\ \/ "op" \notin DOMAIN pout
     \/ pout'.op # pout.op
     \/ pout'.arg # pout.arg
     \/ pout'.result # pout.result

Populated == pc \in {"registry", "registered", "replaced"}

InitLookup ==
  /\ engines = <<>> /\ metadata = <<>>
  /\ initialized = FALSE /\ ciphers = <<>> /\ frames = <<>>
  /\ engine = "none"
  /\ params = IdleParams /\ alt = None
  /\ pc = "loading"
  /\ enc = NoCall /\ enc2 = NoCall /\ dec = NoCall
  /\ prim = NoPrim /\ pout = NoOut

\* the static initialization block of CipherRegistry (part_007 636-660)
StaticInitializer ==
  /\ pc = "loading"
  /\ engines' = RegisterAllEngines(engines, StaticEngines, 1)
  /\ metadata' = RegisterAllMetadata(metadata, StaticEngines, 1)
  /\ ciphers' = IndexAfterInitializeSearch(initialized, ciphers, MapValues(metadata'))
  /\ initialized' = TRUE
  /\ pc' = "registry"
  /\ UNCHANGED <<frames, engine, params, alt, enc, enc2, dec, prim, pout>>

\* CipherRegistry.getEngine(id)
GetEngine ==
  /\ Populated
  /\ \E id \in LookupIds : pout' = Lookup("getEngine", id, getEngine(id))
  /\ UNCHANGED <<engines, metadata, initialized, ciphers, frames, engine, params, alt, pc, enc, enc2, dec, prim>>

\* CipherRegistry.getMetadata(id)
GetMetadata ==
  /\ Populated
  /\ \E id \in LookupIds : pout' = Lookup("getMetadata", id, getMetadata(id))
  /\ UNCHANGED <<engines, metadata, initialized, ciphers, frames, engine, params, alt, pc, enc, enc2, dec, prim>>

\* CipherRegistry.getAllMetadata()
GetAllMetadata ==
  /\ Populated
  /\ pout' = Lookup("getAllMetadata", "", getAllMetadata)
  /\ UNCHANGED <<engines, metadata, initialized, ciphers, frames, engine, params, alt, pc, enc, enc2, dec, prim>>

\* CipherRegistry.getByCategory(category)
GetByCategory ==
  /\ Populated
  /\ \E c \in LookupCategories : pout' = Lookup("getByCategory", c, getByCategory(c))
  /\ UNCHANGED <<engines, metadata, initialized, ciphers, frames, engine, params, alt, pc, enc, enc2, dec, prim>>

\* CipherRegistry.exists(id)
Exists ==
  /\ Populated
  /\ \E id \in LookupIds : pout' = Lookup("exists", id, exists(id))
  /\ UNCHANGED <<engines, metadata, initialized, ciphers, frames, engine, params, alt, pc, enc, enc2, dec, prim>>

\* CipherRegistry.getAllIds()
GetAllIds ==
  /\ Populated
  /\ pout' = Lookup("getAllIds", "", getAllIds)
  /\ UNCHANGED <<engines, metadata, initialized, ciphers, frames, engine, params, alt, pc, enc, enc2, dec, prim>>

\* CipherRegistry.search(query) with a blank query: initializeSearch(),
\* then cipherSearch.search returns Array.from(this.ciphers.values())
Search ==
  /\ Populated
  /\ ciphers' = IndexAfterInitializeSearch(initialized, ciphers, getAllMetadata)
  /\ initialized' = TRUE
  /\ \E query \in BlankQueries :
       /\ IsBlank(query)
       /\ pout' = Lookup("search", query, MapValues(ciphers'))
  /\ UNCHANGED <<engines, metadata, frames, engine, params, alt, pc, enc, enc2, dec, prim>>

\* CipherRegistry.getSuggestions(query) with a blank query: initializeSearch(),
\* then cipherSearch.getSuggestions returns []
GetSuggestions ==
  /\ Populated
  /\ ciphers' = IndexAfterInitializeSearch(initialized, ciphers, getAllMetadata)
  /\ initialized' = TRUE
  /\ \E query \in BlankQueries :
       /\ IsBlank(query)
       /\ pout' = Lookup("getSuggestions", query, <<>>)
  /\ UNCHANGED <<engines, metadata, frames, engine, params, alt, pc, enc, enc2, dec, prim>>

NextLookup ==
  \/ StaticInitializer \/ Register
  \/ GetEngine \/ GetMetadata \/ GetAllMetadata \/ GetByCategory \/ Exists \/ GetAllIds
  \/ Search \/ GetSuggestions

SpecLookup == InitLookup /\ [][NextLookup]_vars

\* the values of an array
Range(array) == {array[i] : i \in 1..Len(array)}

\* C21: after any sequence of register calls and for every identifier,
\* exists(id) holds iff getEngine(id) is defined iff getMetadata(id) is
\* defined iff id is in getAllIds(); getMetadata(id) is the metadata object
\* of getEngine(id) and its id field is id; an unknown id gives undefined;
\* and getByCategory(c) returns exactly the registered metadata of
\* category c.
LookupsAgree ==
  /\ \A id \in LookupIds :
       /\ exists(id) <=> getEngine(id) # None
       /\ exists(id) <=> getMetadata(id) # None
       /\ exists(id) <=> id \in Range(getAllIds)
       /\ exists(id) =>
            /\ getMetadata(id) = Some(TheVal(getEngine(id)).metadata)
            /\ TheVal(getMetadata(id)).id = id
       /\ id \notin Range(StaticIds) =>
            (Populated => getEngine(id) = None /\ getMetadata(id) = None)
  /\ \A c \in LookupCategories :
       /\ Range(getByCategory(c)) = {m \in Range(getAllMetadata) : m.category = c}
       /\ Len(getByCategory(c)) = Cardinality(Range(getByCategory(c)))
  /\ Cardinality(Range(getAllIds)) = Len(getAllIds)

\* after a second TEA engine was registered, a lookup of an unknown id came
\* back undefined
UnknownIdUndefined ==
  /\ pc = "replaced" /\ prim = EngineInstance("tea", 2)
  /\ LastLookup("getEngine") /\ pout.arg = "unknown" /\ pout.result = None
  /\ getEngine("tea") = Some(EngineInstance("tea", 2))

\* C22: the registry becomes populated once, by the static initializer, which
\* registers all 20 engines (tea, xtea, salsa20 and chacha20 among them)
\* before any lookup runs, and stays populated: no step removes an id, so
\* getAllIds() never shrinks, and the lookups leave both tables as they were.
PopulatedForever ==
  [][/\ pc = "loading" =>
          /\ pc' \in {"registry", "registered", "replaced"}
          /\ Len(MapKeys(engines')) = 20
          /\ Cardinality(Range(MapKeys(engines'))) = 20
          /\ {"tea", "xtea", "salsa20", "chacha20"} \subseteq Range(MapKeys(engines'))
          /\ ~LookupStep
     /\ Populated => pc' \in {"registry", "registered", "replaced"}
     /\ Range(getAllIds) \subseteq Range(MapKeys(engines'))
     /\ Len(getAllIds) <= Len(MapKeys(engines'))
     /\ LookupStep =>
          /\ Populated
          /\ engines' = engines /\ metadata' = metadata]_vars

\* all twenty ids came back from getAllIds() after a second TEA engine had
\* been registered
TwentyIdsListed ==
  /\ pc = "replaced" /\ prim = EngineInstance("tea", 2)
  /\ LastLookup("getAllIds") /\ Len(pout.result) = 20
  /\ pout.result = getAllIds

\* C30: the search index is built at most once: the first initializeSearch
\* indexes the metadata registered so far and sets initialized; every later
\* call (by search and getSuggestions) leaves the index as it is, so an
\* engine registered afterwards is returned by getAllMetadata() but not by
\* search('').
IndexedOnce ==
  [][/\ initialized => (initialized' /\ ciphers' = ciphers)
     /\ (~initialized /\ initialized') => MapValues(ciphers') = MapValues(metadata')
     /\ (pc' \in {"registered", "replaced"} /\ prim'.instance # 1) =>
          /\ prim'.metadata \in Range(MapValues(metadata'))
          /\ prim'.metadata \notin Range(MapValues(ciphers'))
     /\ (LookupStep /\ pout'.op = "search") =>
          /\ pout'.result = MapValues(ciphers)
          /\ \A m \in Range(MapValues(metadata)) :
               m.instance # 1 => m \notin Range(pout'.result)]_vars

\* search('') after the registration of a second TEA engine returned the
\* metadata of the first one, while getAllMetadata() holds the second
LateEngineNotIndexed ==
  /\ pc = "replaced" /\ prim = EngineInstance("tea", 2)
  /\ LastLookup("search") /\ pout.arg = <<>>
  /\ EngineInstance("tea", 1).metadata \in Range(pout.result)
  /\ EngineInstance("tea", 2).metadata \notin Range(pout.result)
  /\ EngineInstance("tea", 2).metadata \in Range(getAllMetadata)

---------------------------------------------------------------------------
(* The block-mode wrappers on whole blocks (SpecModes): encryptCBC or       *)
(* processBlocks is applied to a sequence of 8-byte blocks, and decryptCBC  *)
(* or processBlocks to its result, under the same key and IV.               *)

ModeInputs ==
  {[alg |-> a, mode |-> m, key |-> HexParse(PHex(k, 16)),
    iv |-> HexParse(PHex(i, BLOCK_SIZE)), data |-> HexParse(PHex(d, BLOCK_SIZE * n))] :
     a \in FeistelIds, m \in {"CBC", "ECB"}, k \in 0..MaxSeed, i \in 0..MaxSeed,
     d \in 0..MaxSeed, n \in 1..MaxBlocks}

InitModes ==
  /\ engines = PopulatedEngines /\ metadata = PopulatedMetadata
  /\ initialized = TRUE /\ ciphers = PopulatedCiphers /\ frames = <<>>
  /\ prim \in ModeInputs
  /\ pout = NoOut
  /\ engine = prim.alg
  /\ params = IdleParams /\ alt = None
  /\ pc = "modes"
  /\ enc = NoCall /\ enc2 = NoCall /\ dec = NoCall

\* encryptCBC(plaintextBytes, keyBytes, ivBytes) or
\* processBlocks(plaintextBytes, keyBytes, true).toString(Hex)
EncryptModeStep ==
  /\ pc = "modes" /\ pout.enc = None
  /\ pout' = [pout EXCEPT !.enc =
                Some(IF prim.mode = "CBC"
                     THEN encryptCBC(prim.alg, prim.data, prim.key, prim.iv)
                     ELSE encryptECB(prim.alg, prim.data, prim.key))]
  /\ UNCHANGED <<engines, metadata, initialized, ciphers, frames, engine, params, alt, pc, enc, enc2, dec, prim>>

\* decryptCBC(ciphertextBytes, keyBytes, ivBytes) or
\* processBlocks(ciphertextBytes, keyBytes, false) on the parsed result
DecryptModeStep ==
  /\ pc = "modes" /\ pout.enc # None /\ pout.dec = None
  /\ pout' = [pout EXCEPT !.dec =
                Some(IF prim.mode = "CBC"
                     THEN decryptCBC(prim.alg, HexParse(TheVal(pout.enc)), prim.key, prim.iv)
                     ELSE decryptECB(prim.alg, HexParse(TheVal(pout.enc)), prim.key))]
  /\ UNCHANGED <<engines, metadata, initialized, ciphers, frames, engine, params, alt, pc, enc, enc2, dec, prim>>

NextModes == EncryptModeStep \/ DecryptModeStep

SpecModes == InitModes /\ [][NextModes]_vars

\* block i (1-based) of a word sequence, and the XOR of two blocks
BlockAt(ws, i) == WordArray(<<ws[2 * i - 1], ws[2 * i]>>, 2 * BLOCK_SIZE)
XorOfBlocks(a, b) ==
  WordArray(<<Xor32(a.words[1], b.words[1]), Xor32(a.words[2], b.words[2])>>,
            2 * BLOCK_SIZE)

\* what block i is chained with: C[i-1], the IV for the first block, and
\* nothing (zero) in ECB mode
ChainedWith(cipherWords, i) ==
  IF prim.mode = "ECB" THEN WordArray(<<Zero32, Zero32>>, 2 * BLOCK_SIZE)
  ELSE IF i = 1 THEN prim.iv ELSE BlockAt(cipherWords, i - 1)

\* C24: for TEA and XTEA, any key, any 8-byte IV and any sequence of whole
\* blocks P, CBC encryption gives C[i] = E(P[i] XOR C[i-1]) with C[-1] = IV
\* and CBC decryption gives P'[i] = D(C[i]) XOR C[i-1]; ECB applies E or D
\* to each block on its own, in order; and whenever D inverts E, decrypting
\* the encryption gives the original blocks, as many as there were.
ChainedAsSpecified ==
  (pc = "modes" /\ pout.enc # None) =>
    LET n == Len(prim.data.words) \div 2
        c == HexParse(TheVal(pout.enc)).words
    IN  /\ Len(c) = 2 * n
        /\ \A i \in 1..n :
             BlockAt(c, i) =
               EncryptBlock(prim.alg, XorOfBlocks(BlockAt(prim.data.words, i),
                                                  ChainedWith(c, i)), prim.key)
        /\ pout.dec # None =>
             LET d == TheVal(pout.dec).words
             IN  /\ Len(d) = 2 * n
                 /\ \A i \in 1..n :
                      BlockAt(d, i) =
                        XorOfBlocks(DecryptBlock(prim.alg, BlockAt(c, i), prim.key),
                                    ChainedWith(c, i))
                 /\ (\A i \in 1..n :
                       DecryptBlock(prim.alg, BlockAt(c, i), prim.key)
                         = XorOfBlocks(BlockAt(prim.data.words, i), ChainedWith(c, i)))
                      => TheVal(pout.dec) = prim.data

\* three TEA blocks went through CBC encryption and decryption and came
\* back as they were
ThreeBlocksChainedBack ==
  /\ pc = "modes" /\ prim.alg = "tea" /\ prim.mode = "CBC"
  /\ prim.data = HexParse(PHex(1, BLOCK_SIZE * 3)) /\ prim.iv = HexParse(PHex(1, BLOCK_SIZE))
  /\ pout.enc # None /\ pout.dec = Some(prim.data)


---------------------------------------------------------------------------
(* The stream ciphers below the engines (SpecStream): the core block, the   *)
(* keystream and the XOR with the data, for ChaCha20 (twofish.js) and for   *)
(* Salsa20 (salsa20.ts), on messages shorter than, equal to and longer than *)
(* one and two keystream blocks.                                            *)

MaxStreamSeed == 1     \* key, nonce and data patterns of the stream runs

\* message lengths in bytes around the 64-byte block boundary
StreamLengths == {0, 1, 63, 64, 65, 129}

StreamCounters == 0..2

\* 32-byte Salsa20 keys whose second half is zero, repeats the first half,
\* or has a single zero word
SalsaHalfZeroKey == HexParse(HexOfBytes(PBytes(1, 16) \o PBytes(0, 16)))
SalsaRepeatedKey == HexParse(HexOfBytes(PBytes(1, 16) \o PBytes(1, 16)))
SalsaZeroWordKey == HexParse(HexOfBytes(PBytes(1, 20) \o PBytes(0, 4) \o PBytes(1, 8)))

SalsaKeys32 ==
  {HexParse(PHex(sd, 32)) : sd \in 0..MaxStreamSeed}
    \cup {SalsaHalfZeroKey, SalsaRepeatedKey, SalsaZeroWordKey}

SalsaKeys == SalsaKeys32 \cup {HexParse(PHex(sd, 16)) : sd \in 0..MaxStreamSeed}

\* a block call has no data, a message call starts at counter 0
StreamCalls ==
  {[counter |-> c, length |-> 0] : c \in StreamCounters}
    \cup {[counter |-> 0, length |-> l] : l \in StreamLengths}

ChaChaStreamInputs ==
  {[alg |-> "chacha20", key |-> PBytes(k, 32), nonce |-> PBytes(n, 12),
    counter |-> WordOfNat(c.counter), data |-> PBytes(d, c.length)] :
     k \in 0..MaxStreamSeed, n \in 0..MaxStreamSeed, c \in StreamCalls,
     d \in {MaxStreamSeed}}

SalsaStreamInputs ==
  {[alg |-> "salsa20", key |-> k, nonce |-> HexParse(PHex(n, 8)),
    counter |-> c.counter, data |-> HexParse(PHex(d, c.length)),
    variant |-> v] :
     k \in SalsaKeys, n \in 0..MaxStreamSeed, c \in StreamCalls,
     d \in {MaxStreamSeed}, v \in {"salsa20", "salsa20/8"}}

NoStreamOut == [block |-> None, state |-> None, keystream |-> None, out |-> None]

InitStream ==
  /\ engines = PopulatedEngines /\ metadata = PopulatedMetadata
  /\ initialized = TRUE /\ ciphers = PopulatedCiphers /\ frames = <<>>
  /\ prim \in ChaChaStreamInputs \cup SalsaStreamInputs
  /\ pout = NoStreamOut
  /\ engine = prim.alg
  /\ params = IdleParams /\ alt = None
  /\ pc = "stream"
  /\ enc = NoCall /\ enc2 = NoCall /\ dec = NoCall

\* salsa20Block(key, nonce, counter, rounds): the initial state it builds
\* and the 16 words it returns
SalsaBlockStep ==
  /\ pc = "stream" /\ prim.alg = "salsa20"
  /\ pout.block = None
  /\ pout' = [pout EXCEPT
                !.state = Some(SalsaInitialState(prim.key, prim.nonce, prim.counter)),
                !.block = Some(salsa20Block(prim.key, prim.nonce, prim.counter,
                                            getRoundsFromVariant(prim.variant)))]
  /\ UNCHANGED <<engines, metadata, initialized, ciphers, frames, engine, params, alt, pc, enc, enc2, dec, prim>>

\* generateKeystream(key, nonce, data.sigBytes, rounds)
SalsaKeystreamStep ==
  /\ pc = "stream" /\ prim.alg = "salsa20"
  /\ pout.keystream = None
  /\ pout' = [pout EXCEPT
                !.keystream = Some(generateKeystream(prim.key, prim.nonce,
                                     prim.data.sig2,
                                     getRoundsFromVariant(prim.variant)))]
  /\ UNCHANGED <<engines, metadata, initialized, ciphers, frames, engine, params, alt, pc, enc, enc2, dec, prim>>

\* the keystream for the data and its XOR with the data, as encrypt and
\* decrypt compute them (salsa20.ts 75-77, 118-120)
SalsaCryptStep ==
  /\ pc = "stream" /\ prim.alg = "salsa20"
  /\ pout.out = None
  /\ pout' = [pout EXCEPT
                !.out = Some(Salsa20Crypt(prim.data, prim.key, prim.nonce,
                                          prim.variant))]
  /\ UNCHANGED <<engines, metadata, initialized, ciphers, frames, engine, params, alt, pc, enc, enc2, dec, prim>>

\* ChaCha20.encrypt(plaintext, key, nonce) on byte arrays
ChaChaCryptStep ==
  /\ pc = "stream" /\ prim.alg = "chacha20"
  /\ pout.out = None
  /\ pout' = [pout EXCEPT !.out = Some(ChaCha20Encrypt(prim.data, prim.key, prim.nonce))]
  /\ UNCHANGED <<engines, metadata, initialized, ciphers, frames, engine, params, alt, pc, enc, enc2, dec, prim>>

NextStream ==
  ChaChaBlockStep \/ ChaChaCryptStep \/ SalsaBlockStep \/ SalsaKeystreamStep
    \/ SalsaCryptStep

SpecStream == InitStream /\ [][NextStream]_vars


\* the bytes of a message or of a result: a byte array for ChaCha20, the
\* significant bytes of a WordArray for Salsa20
StreamBytes(p, v) == IF p.alg = "chacha20" THEN v ELSE BytesOfWordArray(v)

\* the core block for counter c under the key and nonce of p, as 64 bytes in
\* the order the cipher applies them to the data
CoreBlockBytes(p, c) ==
  IF p.alg = "chacha20" THEN chacha20Block(p.key, p.nonce, WordOfNat(c))
  ELSE LET block == salsa20Block(p.key, p.nonce, c, getRoundsFromVariant(p.variant))
       IN  Array([k \in 1..64 |-> ByteOfWords(block, k - 1)])

CoreBlocks(p, n) == Array([c \in 1..n |-> CoreBlockBytes(p, c - 1)])

XoredWithBlocks(input, output, blocks) ==
  /\ Len(output) = Len(input)
  /\ Len(blocks) = (Len(input) + 63) \div 64
  /\ \A j \in 0..(Len(input) - 1) :
       output[j + 1] = Xor8(input[j + 1], blocks[(j \div 64) + 1][(j % 64) + 1])

\* C26: a message of L bytes is processed with ceil(L/64) keystream blocks,
\* the i-th of them the core block for counter i under the same key and
\* nonce; output byte j is input byte j XOR byte (j mod 64) of block
\* floor(j/64), and the output has exactly L bytes.
KeystreamLoop ==
  (pc = "stream" /\ pout.out # None)
    => XoredWithBlocks(StreamBytes(prim, prim.data),
                       StreamBytes(prim, TheVal(pout.out)),
                       CoreBlocks(prim, (Len(StreamBytes(prim, prim.data)) + 63) \div 64))

\* a Salsa20 message of 129 bytes whose last byte is changed by the third
\* keystream block
ThirdBlockApplied ==
  /\ pc = "stream" /\ prim.alg = "salsa20" /\ pout.out # None
  /\ prim.data.sig2 = 2 * 129
  /\ ByteOfWords(TheVal(pout.out).words, 128) # ByteOfWords(prim.data.words, 128)


\* the 16 words of the finalization: post-round working state plus initial
\* state, word by word mod 2^32, indexed 0..15
ArxSumWords(p, c) ==
  IF p.alg = "chacha20"
  THEN LET state == ChaChaInitialState(p.key, p.nonce, WordOfNat(c))
       IN  Table([i \in 0..15 |->
                    Add32(ChaChaRounds([ws |-> state, i |-> 0])[i], state[i])])
  ELSE LET state == SalsaInitialState(p.key, p.nonce, c)
           working == SalsaRounds([ws |-> state, i |-> 0],
                                  getRoundsFromVariant(p.variant))
       IN  Table([i \in 0..15 |-> Add32(working[i], state[i])])

\* byte 4*i + b of the bytes is bits 8b..8b+7 of word i, for the first n bytes
LittleEndianOf(bytes, sums, n) ==
  \A j \in 0..(n - 1) : bytes[j + 1] = ByteOfWordLE(sums[j \div 4], j % 4)

\* C27: for ChaCha20 and for Salsa20 alike, the 64-byte keystream block is
\* the little-endian serialization of the 16 words obtained by adding the
\* post-round working state to the initial state: keystream byte 4*i + b is
\* bits 8b..8b+7 of word i.
ArxLittleEndian ==
  /\ (pc = "stream" /\ prim.alg = "chacha20" /\ pout.block # None /\ prim.counter[1] = 0)
       => LittleEndianOf(TheVal(pout.block), ArxSumWords(prim, prim.counter[2]), 64)
  /\ (pc = "stream" /\ prim.alg = "salsa20" /\ pout.keystream # None)
       => LittleEndianOf(BytesOfWordArray(TheVal(pout.keystream)),
                         ArxSumWords(prim, 0),
                         Min(64, prim.data.sig2 \div 2))


\* the other 32-byte keys give another initial state and another block for
\* the nonce, counter and round count of p
OtherKeysDiffer(p, state, block) ==
  \A k2 \in SalsaKeys32 \ {p.key} :
     /\ SalsaInitialState(k2, p.nonce, p.counter) # state
     /\ salsa20Block(k2, p.nonce, p.counter, getRoundsFromVariant(p.variant)) # block

\* C28: for a 32-byte key, state words 1..4 are key words 0..3 and state
\* words 11..14 are exactly key words 4..7, whatever their values; for a
\* 16-byte key, words 11..14 repeat key words 0..3; two different 32-byte
\* keys never give the same initial state nor the same keystream block for
\* equal nonce, counter and round count.
SalsaKeyPlacement ==
  (pc = "stream" /\ prim.alg = "salsa20" /\ pout.state # None)
    => /\ \A i \in 0..3 : TheVal(pout.state)[1 + i] = prim.key.words[i + 1]
       /\ prim.key.sig2 = 64
            => /\ \A i \in 0..3 : TheVal(pout.state)[11 + i] = prim.key.words[i + 5]
               /\ OtherKeysDiffer(prim, TheVal(pout.state), TheVal(pout.block))
       /\ prim.key.sig2 = 32
            => \A i \in 0..3 : TheVal(pout.state)[11 + i] = prim.key.words[i + 1]


---------------------------------------------------------------------------
(* The IV an engine generates itself (Spec)                                 *)

\* the success result carries an IV of 8 bytes in metadata.iv
ExposesIv(result) ==
  /\ result.metadata # None
  /\ "iv" \in DOMAIN TheVal(result.metadata)
  /\ TheVal(result.metadata).iv # None
  /\ Len(TheVal(TheVal(result.metadata).iv)) = 2 * BLOCK_SIZE

\* C29: a successful TEA / XTEA CBC encrypt called without an IV generates a
\* fresh 8-byte IV and exposes it in the success result (metadata.iv), so
\* that decrypting with the returned IV recovers the plaintext.
GeneratedIvExposed ==
  (/\ engine \in FeistelIds /\ CbcSelected(params) /\ params.iv = None
   /\ pc \in {"encrypted", "encrypted2", "roundtrip"} /\ Succeeded(enc))
    => ExposesIv(TheVal(enc.op))


---------------------------------------------------------------------------
(* Calls in flight (SpecCalls).  Each call of encrypt or decrypt has a      *)
(* frame: the engine it was called on, its parameters, the value it draws   *)
(* from the random source, and its local variables.  The chaining loop of   *)
(* encryptCBC / decryptCBC and the block loop of generateKeystream advance  *)
(* one block at a time, and the steps of different frames interleave.       *)

MaxCalls == 2          \* calls in flight together

CallKey == Some(PHex(1, 16))
CallIv == Some(PHex(1, BLOCK_SIZE))
CallText == Some(Text(2 * BLOCK_SIZE, 0))

Call(id, op, p, random) ==
  [id |-> id, op |-> op, params |-> p, random |-> random, pc |-> "called",
   local |-> None, result |-> NoCall]

\* two TEA CBC encryptions under different keys (one with an IV of its own,
\* one drawing it), an XTEA CBC decryption, a call that fails, a Salsa20
\* encryption of more than one keystream block and a ChaCha20 encryption
CallInputs ==
  {Call("tea", "encrypt",
        WithIv("tea", CallText, None, CallKey, CallIv, Some("CBC"), None),
        HexParse(PHex(2, BLOCK_SIZE))),
   Call("tea", "encrypt",
        WithIv("tea", CallText, None, Some(PHex(2, 16)), None, None, None),
        HexParse(PHex(3, BLOCK_SIZE))),
   Call("xtea", "decrypt",
        WithIv("xtea", None,
               Some(encryptCBC("xtea", Utf8Parse(TheVal(CallText)),
                               HexParse(TheVal(CallKey)), HexParse(TheVal(CallIv)))),
               CallKey, CallIv, Some("CBC"), None),
        HexParse(PHex(2, BLOCK_SIZE))),
   Call("tea", "encrypt",
        WithIv("tea", CallText, None, Some(PHex(1, 15)), CallIv, Some("CBC"), None),
        HexParse(PHex(2, BLOCK_SIZE))),
   Call("salsa20", "encrypt",
        WithIv("salsa20", Some(Text(65, 0)), None, Some(PHex(1, 32)),
               Some(PHex(1, 8)), None, Some("salsa20/8")),
        HexParse(PHex(2, BLOCK_SIZE))),
   Call("chacha20", "encrypt",
        WithIv("chacha20", Some(Text(BLOCK_SIZE, 0)), None, Some(PHex(1, 32)),
               Some(PHex(1, 12)), None, None),
        HexParse(PHex(2, BLOCK_SIZE)))}

InitCalls ==
  /\ engines = PopulatedEngines /\ metadata = PopulatedMetadata
  /\ initialized = TRUE /\ ciphers = PopulatedCiphers
  /\ frames \in [1..MaxCalls -> CallInputs]
  /\ engine = frames[1].id
  /\ params = IdleParams /\ alt = None
  /\ pc = "calls"
  /\ enc = NoCall /\ enc2 = NoCall /\ dec = NoCall
  /\ prim = NoPrim /\ pout = NoOut

\* the call as one computation
WholeCall(f) ==
  IF f.op = "encrypt" THEN EngineEncrypt(f.id, f.params, f.random)
  ELSE EngineDecrypt(f.id, f.params)

\* the data parameter of the call and its parsed bytes (tea.ts 64, 106)
CallData(f) == IF f.op = "encrypt" THEN f.params.plaintext ELSE f.params.ciphertext
CallBytes(f) ==
  IF f.op = "encrypt" THEN Utf8Parse(TheVal(CallData(f)))
  ELSE HexParse(TheVal(CallData(f)))

\* the call reaches encryptCBC or decryptCBC (tea.ts 52-71, 96-117)
IsChainedCall(f) ==
  /\ f.id \in FeistelIds
  /\ Truthy(CallData(f)) /\ Truthy(f.params.key)
  /\ FeistelValidateKey(f.params.key)
  /\ FeistelMode(f.params) = "CBC"
  /\ f.op = "decrypt" => Truthy(f.params.iv)

\* the call reaches generateKeystream (salsa20.ts 53-75, 98-118)
IsKeystreamCall(f) ==
  /\ f.id = "salsa20"
  /\ Salsa20Check(CallData(f), f.params, "") = None

\* the iv argument of encryptCBC / decryptCBC (tea.ts 63, 70, 105, 118)
CallIvBytes(f) ==
  IF f.op = "encrypt" THEN FeistelIv(f.params, f.random)
  ELSE HexParse(TheVal(f.params.iv))

\* what the chaining loop of the call reads: const blocks =
\* this.splitIntoBlocks(...) and the key (tea.ts 179, 194)
CallEnv(f) == CBCEnv(f.id, splitIntoBlocks(CallBytes(f)), HexParse(TheVal(f.params.key)))

\* const blocksNeeded = Math.ceil(length / 64) (salsa20.ts 188)
BlocksNeeded(f) == (CallBytes(f).sig2 + 127) \div 128

\* blocks of the loop the call is in
CallBlocks(f) ==
  IF f.pc = "chaining" THEN Len(CallEnv(f).blocks) ELSE BlocksNeeded(f)

\* the frame after the checks and the parsing of the call: the locals of
\* the loop it enters, or its result when it reaches no such loop
EnterCall(f) ==
  IF IsChainedCall(f)
  THEN [f EXCEPT !.pc = "chaining", !.local = CBCInitial(CallIvBytes(f))]
  ELSE IF IsKeystreamCall(f)
  THEN [f EXCEPT !.pc = "keystream", !.local = [out |-> <<>>, i |-> 1]]
  ELSE [f EXCEPT !.pc = "returned", !.result = WholeCall(f)]

\* const block = this.salsa20Block(key, nonce, i, rounds);
\* blocks.push(...block) (salsa20.ts 192-195)
KeystreamLoopStep(st, env) ==
  [out |-> Append(st.out, salsa20Block(env.key, env.nonce, st.i - 1, env.rounds)),
   i |-> st.i + 1]

KeystreamEnv(f) ==
  [key |-> HexParse(TheVal(f.params.key)), nonce |-> HexParse(TheVal(f.params.nonce)),
   rounds |-> getRoundsFromVariant(Salsa20Variant(f.params))]

\* variant: previousBlock is a field of the engine, shared by the calls in
\* flight on engines of the same class
OwnLocalsShared(fs, t) ==
  LET others == {u \in 1..Len(fs) : u # t /\ fs[u].pc = "chaining" /\ fs[t].pc = "chaining"}
  IN  IF others = {} THEN fs[t].local
      ELSE [fs[t].local EXCEPT
              !.previousBlock = fs[CHOOSE u \in others : TRUE].local.previousBlock]

\* the locals a call reads in its loop are its own: let previousBlock = iv;
\* const encryptedBlocks = [] (tea.ts 180-181), const blocks = []
\* (salsa20.ts 189)
OwnLocals(fs, t) == fs[t].local

\* one iteration of the loop of the call on the locals given
StepCall(f, local) ==
  IF f.pc = "chaining"
  THEN [f EXCEPT !.local = IF f.op = "encrypt" THEN EncryptCBCLoop(local, CallEnv(f))
                            ELSE DecryptCBCLoop(local, CallEnv(f))]
  ELSE [f EXCEPT !.local = KeystreamLoopStep(local, KeystreamEnv(f))]

\* what the call returns after its loop (tea.ts 190, 76-85, 205, 122-131;
\* salsa20.ts 197-199, 77-85, 120-128)
CallResult(f) ==
  IF f.pc = "chaining"
  THEN IF f.op = "encrypt"
       THEN Completed(Success(HexStringify(concatBlocks(f.local.out)),
                              FeistelMetadata(FeistelMode(f.params),
                                              FeistelVariant(f.id, f.params))))
       ELSE TryCatch(FeistelDecryptReturn(concatBlocks(f.local.out),
                                          FeistelMetadata(FeistelMode(f.params),
                                                          FeistelVariant(f.id, f.params))))
  ELSE LET out == xorWithKeystream(CallBytes(f),
                                   SalsaTrim(f.local.out, CallBytes(f).sig2))
           md == Salsa20Metadata(HexParse(TheVal(f.params.key)), Salsa20Variant(f.params))
       IN  IF f.op = "encrypt" THEN Completed(Success(HexStringify(out), md))
           ELSE TryCatch(Utf8Return(Utf8Stringify(out), md))

\* a call starts: destructuring, checks, parsing (tea.ts 52-64)
CallEnter ==
  /\ pc = "calls"
  /\ \E t \in 1..Len(frames) :
       /\ frames[t].pc = "called"
       /\ frames' = [frames EXCEPT ![t] = EnterCall(frames[t])]
  /\ UNCHANGED <<engines, metadata, initialized, ciphers, engine, params, alt, pc, enc, enc2, dec, prim, pout>>

\* a call in a loop processes its next block
CallBlock ==
  /\ pc = "calls"
  /\ \E t \in 1..Len(frames) :
       /\ frames[t].pc \in {"chaining", "keystream"}
       /\ frames[t].local.i <= CallBlocks(frames[t])
       /\ frames' = [frames EXCEPT ![t] = StepCall(frames[t], OwnLocals(frames, t))]
  /\ UNCHANGED <<engines, metadata, initialized, ciphers, engine, params, alt, pc, enc, enc2, dec, prim, pout>>

\* a call leaves its loop and returns
CallReturn ==
  /\ pc = "calls"
  /\ \E t \in 1..Len(frames) :
       /\ frames[t].pc \in {"chaining", "keystream"}
       /\ frames[t].local.i > CallBlocks(frames[t])
       /\ frames' = [frames EXCEPT ![t] = [frames[t] EXCEPT !.pc = "returned",
                                                            !.result = CallResult(frames[t])]]
  /\ UNCHANGED <<engines, metadata, initialized, ciphers, engine, params, alt, pc, enc, enc2, dec, prim, pout>>

NextCalls == CallEnter \/ CallBlock \/ CallReturn

SpecCalls == InitCalls /\ [][NextCalls]_vars

\* the locals of the call after n iterations of its loop when it runs alone
LocalsAlone(f, n) ==
  IF f.pc = "chaining"
  THEN IF f.op = "encrypt"
       THEN Loop(EncryptCBCLoop, CBCInitial(CallIvBytes(f)), CallEnv(f), n)
       ELSE Loop(DecryptCBCLoop, CBCInitial(CallIvBytes(f)), CallEnv(f), n)
  ELSE Loop(KeystreamLoopStep, [out |-> <<>>, i |-> 1], KeystreamEnv(f), n)

CallAsAlone(f) ==
  /\ f.pc \in {"chaining", "keystream"} => f.local = LocalsAlone(f, f.local.i - 1)
  /\ f.pc = "returned" => f.result = WholeCall(f)

\* C23: encrypt / decrypt calls on the same or on different engines may be
\* interleaved arbitrarily: each call has, at every step, the values it has
\* when it runs alone and returns the result it returns alone, and every
\* call, successful or failed, leaves the engines' fields and the registry
\* unchanged.
CallsIndependent ==
  pc = "calls"
    => /\ \A t \in 1..Len(frames) : CallAsAlone(frames[t])
       /\ engines = PopulatedEngines /\ metadata = PopulatedMetadata
       /\ initialized /\ ciphers = PopulatedCiphers

\* two TEA encryptions under different keys in flight together, each past
\* its first block and before its second
TwoCallsMidChain ==
  /\ pc = "calls" /\ Len(frames) >= 2
  /\ frames[1].id = "tea" /\ frames[2].id = "tea"
  /\ frames[1].params.key # frames[2].params.key
  /\ frames[1].pc = "chaining" /\ frames[2].pc = "chaining"
  /\ frames[1].local.i = 2 /\ frames[2].local.i = 2

====
